---- MODULE Spec2Model ----
(***************************************************************************)
(* Verification model of the deployment engine of WebDev-Tools:            *)
(*   - Deploy/src/core/deployer.mjs   Deployer.run (symlink strategy)      *)
(*   - Deploy/src/utils/retry.mjs     withRetry                            *)
(*   - Deploy/src/core/sftp-client.mjs RobustSftpClient._exec              *)
(*   - NetDeploy Core/DiffEngine.cs   DiffEngine.GetChangedFilesAsync      *)
(*   - NetDeploy Core/Deployer.cs     Deployer.UploadContent               *)
(* Three specifications share the module: Spec (release runs), SpecDiff    *)
(* (diff engine and in-place upload) and SpecRetry (retry wrapper).        *)
(***************************************************************************)
EXTENDS Integers, Sequences, FiniteSets, TLC

(***************************************************************************)
(* Bounds of the model.                                                    *)
(***************************************************************************)
\* Largest value of the wall clock (seconds counter) a run can read.
MaxClock == 3
\* Number of runs of the deployer that are explored.
MaxRuns == 2
\* Largest keepReleases value explored (1..MaxKeep).
MaxKeep == 2

(***************************************************************************)
(* Program constants.                                                      *)
(***************************************************************************)
\* /^\d{14}$/ and .slice(0, 14): a release name is 14 digits.
TS_LEN == 14

(***************************************************************************)
(* Names under releasesRoot are sequences of one-character strings.        *)
(***************************************************************************)
DigitChars == <<"0", "1", "2", "3", "4", "5", "6", "7", "8", "9">>

IsDigit(c) == \E i \in 1..10 : DigitChars[i] = c

DigitVal(c) == CHOOSE d \in 0..9 : DigitChars[d + 1] = c

RECURSIVE Pow10(_)
Pow10(k) == IF k = 0 THEN 1 ELSE 10 * Pow10(k - 1)

\* The i-th decimal digit (from the left) of n written on `width` digits.
\* n stays far below 10^8 in the model, so higher positions are 0.
DigitAt(n, i, width) ==
    IF width - i > 8 THEN 0 ELSE (n \div Pow10(width - i)) % 10

\* new Date().toISOString().replace(/[-:T.Z]/g, '').slice(0, 14): the wall
\* clock as a fixed-width string of TS_LEN digits, increasing with time.
\* The clock is a seconds counter here; a calendar date formats the same way.
TsName(n) == [i \in 1..TS_LEN |-> DigitChars[DigitAt(n, i, TS_LEN) + 1]]

\* /^\d{14}$/.test(name)
MatchesTimestamp(name) ==
    /\ Len(name) = TS_LEN
    /\ \A i \in 1..Len(name) : IsDigit(name[i])

\* a.localeCompare(b) < 0 for two strings of digits: the first differing
\* character decides, a proper prefix sorts first.
RECURSIVE NameLess(_, _)
NameLess(a, b) ==
    IF a = <<>> THEN b # <<>>
    ELSE IF b = <<>> THEN FALSE
    ELSE IF Head(a) = Head(b) THEN NameLess(Tail(a), Tail(b))
    ELSE DigitVal(Head(a)) < DigitVal(Head(b))

\* .sort((a, b) => b.name.localeCompare(a.name)): descending by name.
RECURSIVE SortDesc(_)
SortDesc(S) ==
    IF S = {} THEN <<>>
    ELSE LET m == CHOOSE x \in S : \A y \in S : y = x \/ NameLess(y, x)
         IN  <<m>> \o SortDesc(S \ {m})

\* Array.prototype.slice(k): the elements from index k (0-based) on; a
\* negative k counts from the end.
Slice(seq, k) ==
    LET n     == Len(seq)
        start == IF k < 0 THEN (IF n + k < 0 THEN 0 ELSE n + k)
                 ELSE (IF k > n THEN n ELSE k)
    IN  SubSeq(seq, start + 1, n)

SeqToSet(seq) == {seq[i] : i \in 1..Len(seq)}

(***************************************************************************)
(* The remote host and the local tree.                                     *)
(***************************************************************************)
\* Files of a tree: "app" is shipped from the local tree, "data" is state
\* the live application writes (a database), listed in preserveFiles.
Files == {"app", "data"}

\* A file of a tree is absent ("none") or holds one of these contents: "old"
\* (shipped by an earlier build), "new" (the local tree of this build),
\* "live" (written by the running application).
EmptyDir == [f \in Files |-> "none"]

\* Value of the wall clock in the initial state: one tick before MaxClock.
StartClock == MaxClock - 1

\* Entries of releasesRoot that are not releases: a directory whose name
\* is no timestamp, a directory with 13 digits, and a regular file whose
\* name has 14 digits.
OtherDirName == <<"c", "u", "r">>
ShortDirName == [i \in 1..(TS_LEN - 1) |-> "1"]
FileTsName   == TsName(0)

OtherEntries ==
    [n \in {OtherDirName, ShortDirName, FileTsName} |->
        [type |-> IF n = FileTsName THEN "-" ELSE "d", files |-> EmptyDir]]

NoRelease == <<>>

VARIABLES
    now,            \* wall clock of the deploying machine
    releasesRoot,   \* remote: name -> [type, files] of every entry of releasesRoot
    link,           \* remote: what remoteDir is: absent, a symlink, a real directory
    localTree,      \* local: file -> content ("none": no such file)
    keepReleases,   \* config.keepReleases
    preserveFiles,  \* config.preserveFiles
    pc,             \* position of Deployer.run
    targetUploadDir,\* name of the release directory of the current run
    sessionOpen,    \* this.client is connected
    runs,           \* runs started so far
    okRuns,         \* runs that ended in success so far
    result,         \* how the last run ended
    failedAt,       \* step in which the last run failed
    lnIssued,       \* the ln -sfn command was issued in the current/last run
    activeAtStart,  \* release remoteDir resolved to when the run started
    filesAtStart,   \* files of that release when the run started
    listed,         \* releasesRoot as listed by the pruning step
    removed,        \* names removed by the pruning step of the current/last run
    calls           \* remote operations issued in the current/last run, and how

deployVars == <<now, releasesRoot, link, localTree, keepReleases, preserveFiles,
                pc, targetUploadDir, sessionOpen, runs, okRuns, result, failedAt,
                lnIssued, activeAtStart, filesAtStart, listed, removed, calls>>

\* Names of the directories under releasesRoot.
ReleaseDirs == {n \in DOMAIN releasesRoot : releasesRoot[n].type = "d"}

\* readlink -f remoteDir: the release remoteDir resolves to, if any.
Active ==
    IF link.kind = "symlink" /\ link.target \in ReleaseDirs
    THEN link.target ELSE NoRelease

\* Adds or replaces the entry `name` of a directory listing.
WithEntry(root, name, entry) ==
    [n \in DOMAIN root \cup {name} |-> IF n = name THEN entry ELSE root[n]]

\* Removes the entries `names` of a directory listing.
WithoutEntries(root, names) ==
    [n \in DOMAIN root \ names |-> root[n]]

InitDeploy ==
    /\ now = StartClock
    /\ \E S \in SUBSET (1..MaxClock) :
          releasesRoot =
             [n \in DOMAIN OtherEntries \cup {TsName(t) : t \in S} |->
                 IF n \in DOMAIN OtherEntries THEN OtherEntries[n]
                 ELSE [type |-> "d", files |-> [EmptyDir EXCEPT !["app"] = "old"]]]
    /\ \/ link = [kind |-> "absent", target |-> NoRelease]
       \/ link = [kind |-> "dir", target |-> NoRelease]
       \/ \E n \in ReleaseDirs :
             MatchesTimestamp(n) /\ link = [kind |-> "symlink", target |-> n]
    /\ localTree \in {[EmptyDir EXCEPT !["app"] = "new"],
                      [EmptyDir EXCEPT !["app"] = "new", !["data"] = "new"]}
    /\ keepReleases \in 1..MaxKeep
    /\ preserveFiles \in {<<>>, <<"data">>}
    /\ pc = "idle"
    /\ targetUploadDir = NoRelease
    /\ sessionOpen = FALSE
    /\ runs = 0
    /\ okRuns = 0
    /\ result = "none"
    /\ failedAt = "none"
    /\ lnIssued = FALSE
    /\ activeAtStart = NoRelease
    /\ filesAtStart = EmptyDir
    /\ listed = << >>
    /\ removed = {}
    /\ calls = {}

(***************************************************************************)
(* Deployer.run, symlink strategy, SFTP transfer (deployer.mjs).           *)
(***************************************************************************)
\* The finally block (client.end()) after a throw inside the try.
Abort(step) ==
    /\ pc' = "idle"
    /\ result' = "failed"
    /\ failedAt' = step
    /\ sessionOpen' = FALSE

\* uploadDir(localDir, target): the files of `written` now hold the local
\* versions, the other files of the target stay as they are.
Uploaded(files, written) ==
    [f \in Files |-> IF f \in written THEN localTree[f] ELSE files[f]]

LocalFiles == {f \in Files : localTree[f] # "none"}

\* ln -sfn "<target>" "<remoteDir>": replaces a symlink (or creates it); when
\* remoteDir is a real directory ln creates the link inside that directory
\* and remoteDir itself stays what it was.
LnSfn(l, target) ==
    IF l.kind = "dir" THEN l ELSE [kind |-> "symlink", target |-> target]

\* releases.filter(r => r.type === 'd' && /^\d{14}$/.test(r.name))
\*         .sort((a, b) => b.name.localeCompare(a.name))
sorted(root) ==
    SortDesc({n \in DOMAIN root : root[n].type = "d" /\ MatchesTimestamp(n)})

\* A pruning that keeps one release too many.
toRemoveOffByOne(root, keep) == Slice(sorted(root), keep + 1)

\* sorted.slice(keepReleases)
toRemove(root, keep) == Slice(sorted(root), keep)

\* deployer.mjs line 11: this.client = new SftpClient()
DeployerClient == "SftpClient"

\* How a remote operation of run() reaches the host: a command goes through
\* runCommandsOverSSH (ssh.mjs lines 20-22: withRetry around execOne); an
\* SFTP operation is a method call on this.client, and only the methods of
\* RobustSftpClient (sftp-client.mjs lines 101-107) go through withRetry.
Via(op) ==
    IF op = "exec" THEN "withRetry"
    ELSE IF DeployerClient = "RobustSftpClient" THEN "withRetry"
    ELSE "direct"

\* The operations `ops` are issued.
Issue(ops) == calls' = calls \cup {[op |-> o, via |-> Via(o)] : o \in ops}

Tick ==
    /\ now < MaxClock
    /\ now' = now + 1
    /\ UNCHANGED <<releasesRoot, link, localTree, keepReleases, preserveFiles,
                   pc, targetUploadDir, sessionOpen, runs, okRuns, result,
                   failedAt, lnIssued, activeAtStart, filesAtStart, listed, removed,
                   calls>>

\* The live application writes its state file into the active release.
AppWritesData ==
    /\ pc = "idle"
    /\ Active # NoRelease
    /\ releasesRoot[Active].files["data"] = "none"
    /\ releasesRoot' = [releasesRoot EXCEPT ![Active].files["data"] = "live"]
    /\ UNCHANGED <<now, link, localTree, keepReleases, preserveFiles,
                   pc, targetUploadDir, sessionOpen, runs, okRuns, result,
                   failedAt, lnIssued, activeAtStart, filesAtStart, listed, removed,
                   calls>>

\* run() is entered; pre-commands (lines 33-37) run before the connection.
StartRun ==
    /\ pc = "idle"
    /\ runs < MaxRuns
    /\ runs' = runs + 1
    /\ lnIssued' = FALSE
    /\ removed' = {}
    /\ listed' = << >>
    /\ targetUploadDir' = NoRelease
    /\ calls' = {[op |-> "exec", via |-> Via("exec")]}
    /\ activeAtStart' = Active
    /\ filesAtStart' = IF Active = NoRelease THEN EmptyDir
                       ELSE releasesRoot[Active].files
    /\ \E ok \in BOOLEAN :
          IF ok THEN /\ pc' = "connect"
                     /\ result' = "running"
                     /\ failedAt' = "none"
          ELSE /\ pc' = "idle"
               /\ result' = "failed"
               /\ failedAt' = "pre"
    /\ UNCHANGED <<now, releasesRoot, link, localTree, keepReleases,
                   preserveFiles, sessionOpen, okRuns>>

\* await this.client.connect(...) (line 40), outside the try block.
Connect ==
    /\ pc = "connect"
    /\ Issue({"connect"})
    /\ \E ok \in BOOLEAN :
          IF ok THEN /\ pc' = "prepare"
                     /\ sessionOpen' = TRUE
                     /\ UNCHANGED <<result, failedAt>>
          ELSE /\ pc' = "idle"
               /\ result' = "failed"
               /\ failedAt' = "connect"
               /\ UNCHANGED sessionOpen
    /\ UNCHANGED <<now, releasesRoot, link, localTree, keepReleases, preserveFiles,
                   targetUploadDir, runs, okRuns, lnIssued, activeAtStart,
                   filesAtStart, listed, removed>>

\* Lines 49-57: the release name is the timestamp of this moment; the
\* directory is created unless an entry of that name exists already.
Prepare ==
    /\ pc = "prepare"
    /\ Issue({"exists", "mkdir"})
    /\ \E ok \in BOOLEAN :
          IF ok
          THEN /\ targetUploadDir' = TsName(now)
               /\ releasesRoot' =
                     IF TsName(now) \in DOMAIN releasesRoot THEN releasesRoot
                     ELSE WithEntry(releasesRoot, TsName(now),
                                    [type |-> "d", files |-> EmptyDir])
               /\ pc' = "transfer"
               /\ UNCHANGED <<result, failedAt, sessionOpen>>
          ELSE /\ Abort("prepare")
               /\ UNCHANGED <<targetUploadDir, releasesRoot>>
    /\ UNCHANGED <<now, link, localTree, keepReleases, preserveFiles, runs, okRuns,
                   lnIssued, activeAtStart, filesAtStart, listed, removed>>

\* Lines 81-86: uploadSftp -> client.uploadDir(localDir, targetUploadDir).
\* A failing upload has written some of the files.
Transfer ==
    /\ pc = "transfer"
    /\ Issue({"uploadDir"})
    /\ \E ok \in BOOLEAN, written \in SUBSET LocalFiles :
          /\ ok => written = LocalFiles
          /\ releasesRoot' =
                [releasesRoot EXCEPT ![targetUploadDir].files = Uploaded(@, written)]
          /\ IF ok THEN /\ pc' = "preserve"
                        /\ UNCHANGED <<result, failedAt, sessionOpen>>
             ELSE Abort("transfer")
    /\ UNCHANGED <<now, link, localTree, keepReleases, preserveFiles,
                   targetUploadDir, runs, okRuns, lnIssued, activeAtStart,
                   filesAtStart, listed, removed>>

\* Files of the tree that remoteDir/<f> reads (through the symlink).
SourceFiles == IF Active = NoRelease THEN EmptyDir ELSE releasesRoot[Active].files

\* [ -e "src" ] && cp -rp "src" "dest" || true, for the files of `copied`.
Preserved(files, copied) ==
    [f \in Files |-> IF f \in copied /\ SourceFiles[f] # "none"
                     THEN SourceFiles[f] ELSE files[f]]

\* Lines 88-110: exists(sourceBase) may throw; a copy that fails is logged
\* and the loop goes on.
Preserve ==
    /\ pc = "preserve"
    /\ IF Len(preserveFiles) = 0
       THEN /\ pc' = "swap"
            /\ UNCHANGED <<releasesRoot, result, failedAt, sessionOpen, calls>>
       ELSE \E ok \in BOOLEAN, copied \in SUBSET SeqToSet(preserveFiles) :
               IF ok
               THEN /\ Issue(IF link.kind = "absent" THEN {"exists"}
                             ELSE {"exists", "exec"})
                    /\ releasesRoot' =
                          IF link.kind = "absent" THEN releasesRoot
                          ELSE [releasesRoot EXCEPT ![targetUploadDir].files =
                                                       Preserved(@, copied)]
                    /\ pc' = "swap"
                    /\ UNCHANGED <<result, failedAt, sessionOpen>>
               ELSE /\ Abort("preserve")
                    /\ Issue({"exists"})
                    /\ UNCHANGED releasesRoot
    /\ UNCHANGED <<now, link, localTree, keepReleases, preserveFiles,
                   targetUploadDir, runs, okRuns, lnIssued, activeAtStart,
                   filesAtStart, listed, removed>>

\* Lines 113-115: runCommandsOverSSH([ln -sfn target remoteDir]).
Swap ==
    /\ pc = "swap"
    /\ lnIssued' = TRUE
    /\ Issue({"exec"})
    /\ \E ok \in BOOLEAN :
          IF ok THEN /\ link' = LnSfn(link, targetUploadDir)
                     /\ pc' = "prune"
                     /\ UNCHANGED <<result, failedAt, sessionOpen>>
          ELSE /\ Abort("swap")
               /\ UNCHANGED link
    /\ UNCHANGED <<now, releasesRoot, localTree, keepReleases, preserveFiles,
                   targetUploadDir, runs, okRuns, activeAtStart, filesAtStart,
                   listed, removed>>

\* Lines 117-126: list, filter, sort, slice, then rmdir one by one; j is the
\* number of rmdir calls that succeed (j < Len(toRemove): the next one throws;
\* j = -1: list() throws).
Prune ==
    /\ pc = "prune"
    /\ LET doomed == toRemove(releasesRoot, keepReleases) IN
       \E j \in -1..Len(doomed) :
          IF j = -1
          THEN /\ Abort("prune")
               /\ Issue({"list"})
               /\ UNCHANGED <<releasesRoot, listed, removed>>
          ELSE /\ listed' = releasesRoot
               /\ Issue(IF Len(doomed) = 0 THEN {"list"} ELSE {"list", "rmdir"})
               /\ removed' = SeqToSet(SubSeq(doomed, 1, j))
               /\ releasesRoot' =
                     WithoutEntries(releasesRoot, SeqToSet(SubSeq(doomed, 1, j)))
               /\ IF j = Len(doomed)
                  THEN /\ pc' = "post"
                       /\ UNCHANGED <<result, failedAt, sessionOpen>>
                  ELSE Abort("prune")
    /\ UNCHANGED <<now, link, localTree, keepReleases, preserveFiles,
                   targetUploadDir, runs, okRuns, lnIssued, activeAtStart,
                   filesAtStart>>

\* Lines 129-139: post-commands, "Success!", then the finally block.
Post ==
    /\ pc = "post"
    /\ Issue({"exec"})
    /\ \E ok \in BOOLEAN :
          IF ok THEN /\ pc' = "idle"
                     /\ result' = "success"
                     /\ okRuns' = okRuns + 1
                     /\ sessionOpen' = FALSE
                     /\ UNCHANGED failedAt
          ELSE /\ Abort("post")
               /\ UNCHANGED okRuns
    /\ UNCHANGED <<now, releasesRoot, link, localTree, keepReleases, preserveFiles,
                   targetUploadDir, runs, lnIssued, activeAtStart, filesAtStart,
                   listed, removed>>

(***************************************************************************)
(* DiffEngine.GetChangedFilesAsync (DiffEngine.cs) and                     *)
(* Deployer.UploadContent (Deployer.cs), in-place strategy; next to it the *)
(* upload step of Deployer.run (deployer.mjs), which uploads the tree.     *)
(* Relative paths and the output of the remote find command are sequences  *)
(* of one-character strings.                                               *)
(***************************************************************************)
\* Relative paths that may exist locally and under the remote target: a
\* plain name and two names that contain the character '|'.
PathPool == << <<"a">>, <<"a", "|", "5">>, <<"b", "|", "c">> >>

\* File sizes that occur.
Sizes == {5, 7}

\* Number of runs of the engine that are explored.
MaxDiffRuns == 2

\* All trees over the pool: relative path -> size.
Trees == UNION {[D -> Sizes] : D \in SUBSET SeqToSet(PathPool)}

\* All orders in which find can print the files of a tree.
Orders(tree) ==
    {o \in [1..Cardinality(DOMAIN tree) -> DOMAIN tree] :
        \A i, k \in DOMAIN o : i # k => o[i] # o[k]}

\* string.Replace(from, to) on characters.
ReplaceChar(str, from, to) ==
    [i \in 1..Len(str) |-> IF str[i] = from THEN to ELSE str[i]]

\* string.Split(sep): the fields between the separators, empty ones included.
RECURSIVE SplitFrom(_, _, _)
SplitFrom(str, sep, field) ==
    IF str = <<>> THEN <<field>>
    ELSE IF Head(str) = sep THEN <<field>> \o SplitFrom(Tail(str), sep, <<>>)
    ELSE SplitFrom(Tail(str), sep, Append(field, Head(str)))

Split(str, sep) == SplitFrom(str, sep, <<>>)

\* StringSplitOptions.RemoveEmptyEntries
RemoveEmptyEntries(fields) == SelectSeq(fields, LAMBDA f : f # <<>>)

\* %s of find -printf: the size in decimal digits.
RECURSIVE FormatSize(_)
FormatSize(n) ==
    IF n < 10 THEN <<DigitChars[n + 1]>>
    ELSE Append(FormatSize(n \div 10), DigitChars[(n % 10) + 1])

\* long.TryParse(str, out size): succeeds on a non-empty string of digits.
TryParse(str) == str # <<>> /\ \A i \in 1..Len(str) : IsDigit(str[i])

RECURSIVE ParsedValue(_)
ParsedValue(str) ==
    IF str = <<>> THEN 0
    ELSE 10 * ParsedValue(SubSeq(str, 1, Len(str) - 1)) + DigitVal(str[Len(str)])

\* find "<root>" -type f -printf '%P|%s\n', the files printed in `order`.
RECURSIVE FindOutput(_, _)
FindOutput(tree, order) ==
    IF order = <<>> THEN <<>>
    ELSE Head(order) \o <<"|">> \o FormatSize(tree[Head(order)]) \o <<"\n">>
         \o FindOutput(tree, Tail(order))

\* IsNullOrWhiteSpace(output)
IsNullOrWhiteSpace(str) == \A i \in 1..Len(str) : str[i] \in {" ", "\n"}

\* Lines 31-39: every line whose second '|'-separated field parses as a
\* number sets remoteFiles[first field]; a later line overwrites an earlier.
RECURSIVE ParseLines(_, _)
ParseLines(lines, dict) ==
    IF lines = <<>> THEN dict
    ELSE LET parts == Split(Head(lines), "|")
             key   == ReplaceChar(parts[1], "\\", "/")
         IN  IF Len(parts) >= 2 /\ TryParse(parts[2])
             THEN ParseLines(Tail(lines),
                    [k \in DOMAIN dict \cup {key} |->
                        IF k = key THEN ParsedValue(parts[2]) ELSE dict[k]])
             ELSE ParseLines(Tail(lines), dict)

\* Lines 19-41: the dictionary built from the command's output.
remoteFiles(output, exitStatus) ==
    IF exitStatus = 0 /\ ~IsNullOrWhiteSpace(output)
    THEN ParseLines(RemoveEmptyEntries(Split(output, "\n")), << >>)
    ELSE << >>

\* Directory.GetFiles(..., AllDirectories): the local files, in pool order.
allLocalFiles(local) == SelectSeq(PathPool, LAMBDA q : q \in DOMAIN local)

\* Line 53: !remoteFiles.TryGetValue(relPath, out remoteSize)
\*          || remoteSize != info.Length
IsChanged(local, remote, file) ==
    LET relPath == ReplaceChar(file, "\\", "/")
    IN  relPath \notin DOMAIN remote \/ remote[relPath] # local[file]

\* Lines 43-60: the local files that are to be uploaded.
GetChangedFiles(local, output, exitStatus) ==
    SelectSeq(allLocalFiles(local),
              LAMBDA file : IsChanged(local, remoteFiles(output, exitStatus), file))

\* sftp.UploadFile for the files of `done`: each lands under its relative
\* path with the size of the local file.
UploadFiles(local, remote, done) ==
    [q \in DOMAIN remote \cup {ReplaceChar(f, "\\", "/") : f \in done} |->
        IF \E f \in done : ReplaceChar(f, "\\", "/") = q
        THEN local[CHOOSE f \in done : ReplaceChar(f, "\\", "/") = q]
        ELSE remote[q]]

VARIABLES
    dLocal,         \* local tree: relative path -> size
    dRemote,        \* files under the remote target: relative path -> size
    dRemoteExists,  \* the remote target directory exists
    dPc,            \* "idle", or "diffed" between diff and transfer
    dEngine,        \* implementation that ran the current/last run
    dExit,          \* exit status of the listing command of the run
    dRemoteAtDiff,  \* dRemote when the listing command ran
    dChangeSet,     \* change set of the current/last run
    dTransferred,   \* files the current/last run transferred
    dResult,        \* how the last run ended
    dStable,        \* the last run succeeded and nothing changed since
    dRepeat,        \* the current/last run started with dStable
    dRuns           \* runs started so far

diffVars == <<dLocal, dRemote, dRemoteExists, dPc, dEngine, dExit, dRemoteAtDiff,
              dChangeSet, dTransferred, dResult, dStable, dRepeat, dRuns>>

InitDiffRest ==
    /\ dPc = "idle"
    /\ dEngine = "none"
    /\ dExit = 0
    /\ dRemoteAtDiff = << >>
    /\ dChangeSet = <<>>
    /\ dTransferred = {}
    /\ dResult = "none"
    /\ dStable = FALSE
    /\ dRepeat = FALSE
    /\ dRuns = 0

InitDiff ==
    /\ dLocal \in Trees
    /\ dRemote \in Trees
    /\ dRemoteExists \in BOOLEAN
    /\ ~dRemoteExists => dRemote = << >>
    /\ InitDiffRest

\* Not part of a diff run: the state in which the other specifications
\* keep the variables of this part.
ParkedDiff ==
    /\ dLocal = << >>
    /\ dRemote = << >>
    /\ dRemoteExists = FALSE
    /\ InitDiffRest

\* UploadContent, step 1: GetChangedFilesAsync(targetDir).
\* [ -d root ] && find ...: exit status 1 when the directory is absent;
\* when it exists find prints the files in some order and may still end
\* with a non-zero status.
GetChangedFilesAsync ==
    /\ dPc = "idle"
    /\ dRuns < MaxDiffRuns
    /\ dRuns' = dRuns + 1
    /\ dEngine' = "NetDeploy"
    /\ dRepeat' = dStable
    /\ dStable' = FALSE
    /\ dRemoteAtDiff' = dRemote
    /\ dTransferred' = {}
    /\ dResult' = "running"
    /\ dPc' = "diffed"
    /\ \E exitStatus \in {0, 1}, order \in Orders(dRemote) :
          /\ ~dRemoteExists => exitStatus = 1
          /\ dExit' = exitStatus
          /\ dChangeSet' =
                GetChangedFiles(dLocal,
                    IF dRemoteExists THEN FindOutput(dRemote, order) ELSE <<>>,
                    exitStatus)
    /\ UNCHANGED <<dLocal, dRemote, dRemoteExists>>

\* UploadContent, step 2: nothing to do for an empty change set; else the
\* strategy uploads the files one by one and may fail on the way.
UploadContent ==
    /\ dPc = "diffed"
    /\ dPc' = "idle"
    /\ IF Len(dChangeSet) = 0
       THEN /\ dResult' = "success"
            /\ dStable' = TRUE
            /\ UNCHANGED <<dRemote, dRemoteExists, dTransferred>>
       ELSE \E n \in 0..Len(dChangeSet) :
               LET done == SeqToSet(SubSeq(dChangeSet, 1, n)) IN
               /\ dTransferred' = done
               /\ dRemote' = UploadFiles(dLocal, dRemote, done)
               /\ dRemoteExists' = (dRemoteExists \/ n > 0)
               /\ dResult' = IF n = Len(dChangeSet) THEN "success" ELSE "failed"
               /\ dStable' = (n = Len(dChangeSet))
    /\ UNCHANGED <<dLocal, dEngine, dExit, dRemoteAtDiff, dChangeSet, dRepeat, dRuns>>

\* Deployer.run of deployer.mjs, lines 59-86, in-place strategy: the target
\* is created if missing and uploadDir sends every file of the local tree.
UploadSftp ==
    /\ dPc = "idle"
    /\ dRuns < MaxDiffRuns
    /\ dRuns' = dRuns + 1
    /\ dEngine' = "Deploy"
    /\ dRepeat' = dStable
    /\ dRemoteAtDiff' = dRemote
    /\ dChangeSet' = <<>>
    /\ dExit' = 0
    /\ \E n \in 0..Len(allLocalFiles(dLocal)) :
          LET done == SeqToSet(SubSeq(allLocalFiles(dLocal), 1, n)) IN
          /\ dTransferred' = done
          /\ dRemote' = UploadFiles(dLocal, dRemote, done)
          /\ dRemoteExists' = TRUE
          /\ dResult' = IF n = Len(allLocalFiles(dLocal)) THEN "success" ELSE "failed"
          /\ dStable' = (n = Len(allLocalFiles(dLocal)))
    /\ UNCHANGED <<dLocal, dPc>>

\* The developer changes the local tree between two runs.
EditLocal ==
    /\ dPc = "idle"
    /\ dRuns < MaxDiffRuns
    /\ \E t \in Trees :
          /\ t # dLocal
          /\ Cardinality({q \in SeqToSet(PathPool) :
                 (q \in DOMAIN t) # (q \in DOMAIN dLocal)
                 \/ (q \in DOMAIN t /\ t[q] # dLocal[q])}) = 1
          /\ dLocal' = t
    /\ dStable' = FALSE
    /\ UNCHANGED <<dRemote, dRemoteExists, dPc, dEngine, dExit, dRemoteAtDiff,
                   dChangeSet, dTransferred, dResult, dRepeat, dRuns>>


(***************************************************************************)
(* withRetry (retry.mjs) around the lambdas of RobustSftpClient._exec and  *)
(* RobustSftpClient.connect (sftp-client.mjs). Error messages and the      *)
(* alternatives of the regular expressions are sequences of characters.    *)
(***************************************************************************)
\* retry.mjs line 1: const DEFAULT_RETRIES = 10
DEFAULT_RETRIES == 10

\* Largest explicit options.retries value explored (0..MaxRetriesOpt), next
\* to the default.
MaxRetriesOpt == 1

\* Number of calls of the wrapper that are explored.
MaxWrapperCalls == 2

UpperChars == <<"A", "B", "C", "D", "E", "F", "G", "H", "I", "J", "K", "L", "M",
                "N", "O", "P", "Q", "R", "S", "T", "U", "V", "W", "X", "Y", "Z">>
LowerChars == <<"a", "b", "c", "d", "e", "f", "g", "h", "i", "j", "k", "l", "m",
                "n", "o", "p", "q", "r", "s", "t", "u", "v", "w", "x", "y", "z">>

\* Case folding of the /i flag.
ToLower(c) ==
    IF \E i \in 1..Len(UpperChars) : UpperChars[i] = c
    THEN LowerChars[CHOOSE i \in 1..Len(UpperChars) : UpperChars[i] = c]
    ELSE c

\* pattern occurs somewhere in msg, letter case ignored.
Contains(msg, pattern) ==
    \E i \in 0..(Len(msg) - Len(pattern)) :
        \A k \in 1..Len(pattern) : ToLower(msg[i + k]) = ToLower(pattern[k])

\* String.prototype.includes: pattern occurs in msg, letter case kept.
Includes(msg, pattern) ==
    \E i \in 0..(Len(msg) - Len(pattern)) :
        \A k \in 1..Len(pattern) : msg[i + k] = pattern[k]

\* retry.mjs line 18:
\* /ECONNRESET|ETIMEDOUT|Connection lost|Socket closed|Broken pipe|Not connected|Failure/i
RetryPatterns ==
    {<<"E", "C", "O", "N", "N", "R", "E", "S", "E", "T">>,
     <<"E", "T", "I", "M", "E", "D", "O", "U", "T">>,
     <<"C", "o", "n", "n", "e", "c", "t", "i", "o", "n", " ", "l", "o", "s", "t">>,
     <<"S", "o", "c", "k", "e", "t", " ", "c", "l", "o", "s", "e", "d">>,
     <<"B", "r", "o", "k", "e", "n", " ", "p", "i", "p", "e">>,
     <<"N", "o", "t", " ", "c", "o", "n", "n", "e", "c", "t", "e", "d">>,
     <<"F", "a", "i", "l", "u", "r", "e">>}

\* sftp-client.mjs line 49:
\* /ECONNRESET|ETIMEDOUT|No connection|Socket closed|Broken pipe|Not connected|Failure/i
ExecPatterns ==
    {<<"E", "C", "O", "N", "N", "R", "E", "S", "E", "T">>,
     <<"E", "T", "I", "M", "E", "D", "O", "U", "T">>,
     <<"N", "o", " ", "c", "o", "n", "n", "e", "c", "t", "i", "o", "n">>,
     <<"S", "o", "c", "k", "e", "t", " ", "c", "l", "o", "s", "e", "d">>,
     <<"B", "r", "o", "k", "e", "n", " ", "p", "i", "p", "e">>,
     <<"N", "o", "t", " ", "c", "o", "n", "n", "e", "c", "t", "e", "d">>,
     <<"F", "a", "i", "l", "u", "r", "e">>}

\* The transient-connection patterns both expressions share: connection
\* reset, timed out, socket closed, broken pipe, not connected, failure.
TransientPatterns == RetryPatterns \cap ExecPatterns

isConnectionError(msg) == \E q \in RetryPatterns : Contains(msg, q)

\* A classification that knows the reset pattern only.
IsConnectionLossResetOnly(msg) == Contains(msg, <<"E", "C", "O", "N", "N", "R", "E", "S", "E", "T">>)

\* sftp-client.mjs line 49: "Detect connection loss".
IsConnectionLoss(msg) == \E q \in ExecPatterns : Contains(msg, q)

IsTransient(msg) == \E q \in TransientPatterns : Contains(msg, q)

\* e.message.includes('Already connected')
IsAlreadyConnected(msg) == Includes(msg, <<"A", "l", "r", "e", "a", "d", "y", " ", "c", "o", "n", "n", "e", "c", "t", "e", "d">>)

\* Messages of the errors an operation fails with.
MsgReset == <<"r", "e", "a", "d", " ", "E", "C", "O", "N", "N", "R", "E", "S", "E", "T">>
MsgLost == <<"C", "o", "n", "n", "e", "c", "t", "i", "o", "n", " ", "l", "o", "s", "t">>
MsgNoConn == <<"N", "o", " ", "c", "o", "n", "n", "e", "c", "t", "i", "o", "n">>
MsgAuth == <<"A", "l", "l", " ", "c", "o", "n", "f", "i", "g", "u", "r", "e", "d", " ", "a", "u", "t", "h", "e", "n", "t", "i", "c", "a", "t", "i", "o", "n", " ", "m", "e", "t", "h", "o", "d", "s", " ", "f", "a", "i", "l", "e", "d">>
MsgExit == <<"C", "o", "m", "m", "a", "n", "d", " ", "f", "a", "i", "l", "e", "d", " ", "(", "c", "o", "d", "e", "=", "1", ")">>
MsgFailure == <<"p", "u", "t", ":", " ", "f", "a", "i", "l", "u", "r", "e">>
MsgAlready == <<"A", "l", "r", "e", "a", "d", "y", " ", "c", "o", "n", "n", "e", "c", "t", "e", "d">>

ErrorMessages == {MsgReset, MsgLost, MsgNoConn, MsgAuth, MsgExit, MsgFailure}

\* Values an operation returns.
OpResults == {"r1", "r2"}

\* A loop that allows one pass too many.
GiveUpLate(attempt, retries) == attempt > retries + 1

\* retry.mjs line 15: if (attempt > retries) throw error
GiveUp(attempt, retries) == attempt > retries

VARIABLES
    rPc,          \* withRetry: "idle", "call", "sleep", "returned", "thrown"
    rKind,        \* lambda that is wrapped: "_exec" or "connect"
    rRetries,     \* options.retries ?? DEFAULT_RETRIES
    rAttempt,     \* attempt
    rCalls,       \* invocations of the operation by this call of the wrapper
    rFails,       \* invocations of the operation that failed
    rReconnects,  \* client.connect calls made by _exec to reconnect
    rSleeps,      \* delays waited
    rLastError,   \* message of the error of the last failed invocation
    rAllTransient,\* every failed invocation failed with a transient pattern
    rError,       \* message of the error the wrapper threw
    rThrown,      \* message of the error the lambda threw last
    rOpResult,    \* value the operation returned
    rValue,       \* value the wrapper returned
    rConnected,   \* this.client is connected
    rHasConfig,   \* this.config is set
    rWrapperCalls \* calls of the wrapper so far

retryVars == <<rPc, rKind, rRetries, rAttempt, rCalls, rFails, rReconnects,
               rSleeps, rLastError, rAllTransient, rError, rThrown, rOpResult,
               rValue, rConnected, rHasConfig, rWrapperCalls>>

NoMessage == <<>>

InitRetryRest ==
    /\ rPc = "idle"
    /\ rKind = "none"
    /\ rRetries = DEFAULT_RETRIES
    /\ rAttempt = 0
    /\ rCalls = 0
    /\ rFails = 0
    /\ rReconnects = 0
    /\ rSleeps = 0
    /\ rLastError = NoMessage
    /\ rAllTransient = TRUE
    /\ rError = NoMessage
    /\ rThrown = NoMessage
    /\ rOpResult = "none"
    /\ rValue = "none"
    /\ rWrapperCalls = 0

\* A client right after construction, or one that connect() has connected.
InitRetry ==
    /\ rConnected \in BOOLEAN
    /\ rHasConfig = rConnected
    /\ InitRetryRest

ParkedRetry ==
    /\ rConnected = FALSE
    /\ rHasConfig = FALSE
    /\ InitRetryRest

\* withRetry(fn, options) is entered: attempt = 0, then the loop calls fn.
\* connect(config) stores the configuration first.
Begin ==
    /\ rPc = "idle"
    /\ rWrapperCalls < MaxWrapperCalls
    /\ rWrapperCalls' = rWrapperCalls + 1
    /\ \E kind \in {"_exec", "connect"}, r \in (0..MaxRetriesOpt) \cup {DEFAULT_RETRIES} :
          /\ rKind' = kind
          /\ rRetries' = r
          /\ rHasConfig' = (rHasConfig \/ kind = "connect")
    /\ rPc' = "call"
    /\ rAttempt' = 0
    /\ rCalls' = 0
    /\ rFails' = 0
    /\ rReconnects' = 0
    /\ rSleeps' = 0
    /\ rLastError' = NoMessage
    /\ rAllTransient' = TRUE
    /\ rError' = NoMessage
    /\ rThrown' = NoMessage
    /\ rOpResult' = "none"
    /\ rValue' = "none"
    /\ UNCHANGED rConnected

\* The catch block of withRetry for an error with message err.
Caught(err) ==
    /\ rAttempt' = rAttempt + 1
    /\ rThrown' = err
    /\ IF GiveUp(rAttempt + 1, rRetries)
       THEN /\ rPc' = "thrown"
            /\ rError' = err
       ELSE /\ rPc' = "sleep"
            /\ UNCHANGED rError

\* return await fn(): fn returned v.
Returned(v) ==
    /\ rPc' = "returned"
    /\ rValue' = v
    /\ UNCHANGED <<rAttempt, rThrown, rError>>

\* One pass of the loop of withRetry around the lambda of _exec: the
\* operation client[method](...args) is invoked once; it can succeed on a
\* connected client only. On a connection loss the client is replaced and,
\* with a stored configuration, connected again before the error is thrown.
InvokeExec ==
    /\ rPc = "call"
    /\ rKind = "_exec"
    /\ rCalls' = rCalls + 1
    /\ \/ /\ rConnected
          /\ \E v \in OpResults :
                /\ rOpResult' = v
                /\ Returned(v)
          /\ UNCHANGED <<rFails, rReconnects, rLastError, rAllTransient, rConnected>>
       \/ \E msg \in ErrorMessages :
             /\ rFails' = rFails + 1
             /\ rLastError' = msg
             /\ rAllTransient' = (rAllTransient /\ IsTransient(msg))
             /\ UNCHANGED rOpResult
             /\ IF IsConnectionLoss(msg)
                THEN IF rHasConfig
                     THEN /\ rReconnects' = rReconnects + 1
                          /\ \/ /\ rConnected' = TRUE
                                /\ Caught(msg)
                             \/ /\ rConnected' = FALSE
                                /\ \E connErr \in ErrorMessages : Caught(connErr)
                     ELSE /\ rConnected' = FALSE
                          /\ UNCHANGED rReconnects
                          /\ Caught(msg)
                ELSE /\ UNCHANGED <<rReconnects, rConnected>>
                     /\ Caught(msg)
          /\ UNCHANGED rValue
    /\ UNCHANGED <<rKind, rRetries, rSleeps, rHasConfig, rWrapperCalls>>

\* One pass of the loop of withRetry around the lambda of connect:
\* client.connect succeeds, or fails; 'Already connected' counts as done,
\* any other error replaces the client and is thrown.
InvokeConnect ==
    /\ rPc = "call"
    /\ rKind = "connect"
    /\ rCalls' = rCalls + 1
    /\ \/ /\ ~rConnected
          /\ rConnected' = TRUE
          /\ rOpResult' = "undefined"
          /\ Returned("undefined")
          /\ UNCHANGED <<rFails, rLastError, rAllTransient>>
       \/ \E msg \in ErrorMessages \cup {MsgAlready} :
             /\ rConnected = (msg = MsgAlready)
             /\ rFails' = rFails + 1
             /\ rLastError' = msg
             /\ rAllTransient' = (rAllTransient /\ IsTransient(msg))
             /\ IF IsAlreadyConnected(msg)
                THEN /\ rOpResult' = "undefined"
                     /\ Returned("undefined")
                     /\ UNCHANGED rConnected
                ELSE /\ rConnected' = FALSE
                     /\ Caught(msg)
                     /\ UNCHANGED <<rOpResult, rValue>>
    /\ UNCHANGED <<rKind, rRetries, rReconnects, rSleeps, rHasConfig, rWrapperCalls>>

\* await new Promise(r => setTimeout(r, delay)), then the next pass.
Sleep ==
    /\ rPc = "sleep"
    /\ rPc' = "call"
    /\ rSleeps' = rSleeps + 1
    /\ UNCHANGED <<rKind, rRetries, rAttempt, rCalls, rFails, rReconnects,
                   rLastError, rAllTransient, rError, rThrown, rOpResult, rValue,
                   rConnected, rHasConfig, rWrapperCalls>>

\* The caller goes on after the wrapper has returned or thrown.
Resume ==
    /\ rPc \in {"returned", "thrown"}
    /\ rPc' = "idle"
    /\ UNCHANGED <<rKind, rRetries, rAttempt, rCalls, rFails, rReconnects, rSleeps,
                   rLastError, rAllTransient, rError, rThrown, rOpResult, rValue,
                   rConnected, rHasConfig, rWrapperCalls>>

\* RobustSftpClient.end(): the configuration is dropped once the client has
\* ended; an error of client.end() is swallowed and keeps it.
End ==
    /\ rPc = "idle"
    /\ rKind # "none"
    /\ \E ok \in BOOLEAN :
          IF ok THEN rConnected' = FALSE /\ rHasConfig' = FALSE
          ELSE UNCHANGED <<rConnected, rHasConfig>>
    /\ UNCHANGED <<rPc, rKind, rRetries, rAttempt, rCalls, rFails, rReconnects,
                   rSleeps, rLastError, rAllTransient, rError, rThrown, rOpResult,
                   rValue, rWrapperCalls>>

(***************************************************************************)
(* The batch packer: createBatches (utils/fs.mjs) as uploadTar calls it,   *)
(* and TarDeployment.CreateBatches (TarDeployment.cs). A file list is the  *)
(* sequence of the files' sizes in bytes; a batch is the sequence of the   *)
(* positions its files have in the list.                                   *)
(***************************************************************************)
\* Longest file list explored.
MaxFiles == 3

\* Largest batchSizeMB explored.
MaxBatchMB == 2

\* 1024 * 1024
BytesPerMB == 1048576

\* TarDeployment.cs line 169: _config.BatchSizeMB ?? 50
DefaultBatchMB == 50

\* File sizes explored: empty, one byte, half a megabyte, one and two
\* megabytes, and one byte more than a megabyte.
FileSizes == {0, 1, BytesPerMB \div 2, BytesPerMB, BytesPerMB + 1, 2 * BytesPerMB}

FileLists == UNION {[1..n -> FileSizes] : n \in 0..MaxFiles}

\* config.batchSizeMB: <<n>> for the number n, <<>> when it is not set.
BatchSizeOptions == {<<n>> : n \in 0..MaxBatchMB} \cup {<<>>}

\* A test that closes the batch only once it is over the limit already.
MustFlushLate(currentSize, size, maxBytes, count) ==
    currentSize > maxBytes /\ count > 0

\* fs.mjs line 105 / TarDeployment.cs line 175: the current batch is closed
\* before a file that would take it over the limit, unless it is empty.
MustFlush(currentSize, size, maxBytes, count) ==
    currentSize + size > maxBytes /\ count > 0

\* The loop over the files (fs.mjs lines 103-114, TarDeployment.cs lines
\* 171-193), from position i on.
RECURSIVE PackFrom(_, _, _, _, _, _)
PackFrom(files, i, maxBytes, batches, currentBatch, currentSize) ==
    IF i > Len(files)
    THEN IF Len(currentBatch) > 0 THEN Append(batches, currentBatch) ELSE batches
    ELSE IF MustFlush(currentSize, files[i], maxBytes, Len(currentBatch))
         THEN PackFrom(files, i + 1, maxBytes, Append(batches, currentBatch),
                       <<i>>, files[i])
         ELSE PackFrom(files, i + 1, maxBytes, batches,
                       Append(currentBatch, i), currentSize + files[i])

\* fs.mjs lines 97-115.
createBatches(files, maxBytes) ==
    IF maxBytes <= 0 THEN << [i \in 1..Len(files) |-> i] >>
    ELSE PackFrom(files, 1, maxBytes, <<>>, <<>>, 0)

\* sftp.mjs line 44: (batchSizeMB || 0) * 1024 * 1024
maxBytesOf(batchSizeMB) ==
    (IF batchSizeMB = <<>> THEN 0 ELSE batchSizeMB[1]) * BytesPerMB

\* TarDeployment.cs line 169: (_config.BatchSizeMB ?? 50) * 1024 * 1024
limitBytesOf(batchSizeMB) ==
    (IF batchSizeMB = <<>> THEN DefaultBatchMB ELSE batchSizeMB[1]) * BytesPerMB

\* TarDeployment.cs lines 163-194.
CreateBatches(files, batchSizeMB) ==
    PackFrom(files, 1, limitBytesOf(batchSizeMB), <<>>, <<>>, 0)

VARIABLES
    bFiles,         \* sizes of the files to pack
    bBatchSizeMB,   \* configured batch size
    bPc,            \* "ready" or "packed"
    bEngine,        \* which packer ran
    bLimit,         \* limit in bytes the packer worked with
    bBatches        \* batches it returned

batchVars == <<bFiles, bBatchSizeMB, bPc, bEngine, bLimit, bBatches>>

InitBatchRest ==
    /\ bPc = "ready"
    /\ bEngine = "none"
    /\ bLimit = 0
    /\ bBatches = <<>>

InitBatch ==
    /\ bFiles \in FileLists
    /\ bBatchSizeMB \in BatchSizeOptions
    /\ InitBatchRest

ParkedBatch ==
    /\ bFiles = <<>>
    /\ bBatchSizeMB = <<>>
    /\ InitBatchRest

\* uploadTar, sftp.mjs lines 42-45.
UploadTarBatches ==
    /\ bPc = "ready"
    /\ bPc' = "packed"
    /\ bEngine' = "Deploy"
    /\ bLimit' = maxBytesOf(bBatchSizeMB)
    /\ bBatches' = createBatches(bFiles, maxBytesOf(bBatchSizeMB))
    /\ UNCHANGED <<bFiles, bBatchSizeMB>>

\* TarDeployment.UploadAsync, TarDeployment.cs line 23.
UploadAsyncBatches ==
    /\ bPc = "ready"
    /\ bPc' = "packed"
    /\ bEngine' = "NetDeploy"
    /\ bLimit' = limitBytesOf(bBatchSizeMB)
    /\ bBatches' = CreateBatches(bFiles, bBatchSizeMB)
    /\ UNCHANGED <<bFiles, bBatchSizeMB>>

(***************************************************************************)
(* The preserve step and the remote commands of a symlink-strategy run:    *)
(* Deployer.RunSymlinkStrategy with PreserveFilesFromPreviousRelease       *)
(* (Deployer.cs), and the same steps of Deployer.run (deployer.mjs).       *)
(* Paths and preserveFiles entries are sequences of characters.            *)
(***************************************************************************)
\* The character NUL, which a TLA+ string cannot hold.
NulChar == "\\0"

\* The grave accent (U+0060), written as a token of its own.
Backtick == "U+0060"

\* Characters string.Trim() and IsNullOrWhiteSpace treat as white space.
WhiteSpaceChars == {" ", "\t", "\n", "\r"}

\* Replaces every character c of str by the characters of rep.
RECURSIVE ReplaceWith(_, _, _)
ReplaceWith(str, c, rep) ==
    IF str = <<>> THEN <<>>
    ELSE (IF Head(str) = c THEN rep ELSE <<Head(str)>>)
         \o ReplaceWith(Tail(str), c, rep)

\* Deployer.cs lines 258-266: four Replace calls, the backslash first.
EscapeForBashDoubleQuotes(value) ==
    ReplaceWith(
        ReplaceWith(
            ReplaceWith(
                ReplaceWith(value, "\\", <<"\\", "\\">>),
                "\"", <<"\\", "\"">>),
            "$", <<"\\", "$">>),
        Backtick, <<"\\", Backtick>>)

RECURSIVE TrimStart(_)
TrimStart(str) ==
    IF str # <<>> /\ Head(str) \in WhiteSpaceChars THEN TrimStart(Tail(str)) ELSE str

RECURSIVE TrimEndOf(_, _)
TrimEndOf(str, chars) ==
    IF str # <<>> /\ str[Len(str)] \in chars
    THEN TrimEndOf(SubSeq(str, 1, Len(str) - 1), chars) ELSE str

\* entry.Trim()
Trim(str) == TrimEndOf(TrimStart(str), WhiteSpaceChars)

\* string.IsNullOrWhiteSpace(entry)
IsBlank(str) == \A i \in 1..Len(str) : str[i] \in WhiteSpaceChars

\* Deployer.cs line 234: entry.Trim().Replace('\\', '/')
NormalizedEntry(entry) == ReplaceWith(Trim(entry), "\\", <<"/">>)

\* Deployer.cs lines 237-250: the three tests that throw.
IsRejected(p) ==
    \/ p # <<>> /\ p[1] = "/"
    \/ Includes(p, <<".", ".">>)
    \/ \E i \in 1..Len(p) : p[i] \in {"\n", "\r", NulChar}

\* Deployer.cs lines 223-256: the normalized list, or the throw of the
\* first entry that fails a test.
RECURSIVE NormalizeAndValidatePreserveFiles(_)
NormalizeAndValidatePreserveFiles(entries) ==
    IF entries = <<>> THEN [rejected |-> FALSE, list |-> <<>>]
    ELSE IF IsBlank(Head(entries))
         THEN NormalizeAndValidatePreserveFiles(Tail(entries))
         ELSE IF IsRejected(NormalizedEntry(Head(entries)))
              THEN [rejected |-> TRUE, list |-> <<>>]
              ELSE LET rest == NormalizeAndValidatePreserveFiles(Tail(entries))
                   IN  [rejected |-> rest.rejected,
                        list |-> IF rest.rejected THEN <<>>
                                 ELSE <<NormalizedEntry(Head(entries))>> \o rest.list]

\* Position of the last c in str, 0 when there is none.
LastIndexOf(str, c) ==
    LET hits == {i \in 1..Len(str) : str[i] = c}
    IN  IF hits = {} THEN 0 ELSE CHOOSE i \in hits : \A j \in hits : j <= i

\* Deployer.cs lines 72-79: remoteDir without trailing slashes, its parent,
\* and the release directory parent/releases/ts (ReleasesDir not set).
RemoteDirCs(remoteDir) == TrimEndOf(remoteDir, {"/"})

ParentCs(remoteDir) ==
    LET rd  == RemoteDirCs(remoteDir)
        idx == LastIndexOf(rd, "/") - 1
    IN  IF idx > 0 THEN SubSeq(rd, 1, idx) ELSE rd

ReleasesName == <<"r", "e", "l", "e", "a", "s", "e", "s">>

TargetDirCs(remoteDir, ts) ==
    ParentCs(remoteDir) \o <<"/">> \o ReleasesName \o <<"/">> \o ts

\* paths.mjs lines 3-4: /\\+/g -> '/': a run of backslashes becomes one slash.
RECURSIVE BackslashesToSlash(_)
BackslashesToSlash(str) ==
    IF str = <<>> THEN <<>>
    ELSE IF Head(str) = "\\"
         THEN IF Len(str) >= 2 /\ str[2] = "\\"
              THEN BackslashesToSlash(Tail(str))
              ELSE <<"/">> \o BackslashesToSlash(Tail(str))
         ELSE <<Head(str)>> \o BackslashesToSlash(Tail(str))

\* paths.mjs line 3: normalizeRemote
normalizeRemote(p) == TrimEndOf(BackslashesToSlash(p), {"/"})

\* The segments of a path between slashes, empty ones included.
RECURSIVE Segments(_, _)
Segments(str, cur) ==
    IF str = <<>> THEN <<cur>>
    ELSE IF Head(str) = "/" THEN <<cur>> \o Segments(Tail(str), <<>>)
         ELSE Segments(Tail(str), Append(cur, Head(str)))

\* path.posix.normalize on the segments: drops empty and "." segments, lets
\* ".." take back the segment before it, keeps a leading ".." of a relative
\* path and drops it at the root.
RECURSIVE Resolve(_, _, _)
Resolve(segs, out, isAbs) ==
    IF segs = <<>> THEN out
    ELSE LET s == Head(segs) IN
         IF s = <<>> \/ s = <<".">> THEN Resolve(Tail(segs), out, isAbs)
         ELSE IF s = <<".", ".">>
              THEN IF out # <<>> /\ out[Len(out)] # <<".", ".">>
                   THEN Resolve(Tail(segs), SubSeq(out, 1, Len(out) - 1), isAbs)
                   ELSE IF isAbs THEN Resolve(Tail(segs), out, isAbs)
                        ELSE Resolve(Tail(segs), Append(out, s), isAbs)
              ELSE Resolve(Tail(segs), Append(out, s), isAbs)

RECURSIVE JoinSegments(_)
JoinSegments(segs) ==
    IF segs = <<>> THEN <<>>
    ELSE IF Len(segs) = 1 THEN Head(segs)
         ELSE Head(segs) \o <<"/">> \o JoinSegments(Tail(segs))

PosixNormalize(path) ==
    LET isAbs == path # <<>> /\ path[1] = "/"
        trail == path # <<>> /\ path[Len(path)] = "/"
        body  == JoinSegments(Resolve(Segments(path, <<>>), <<>>, isAbs))
    IN  IF body = <<>> THEN (IF isAbs THEN <<"/">> ELSE <<".">>)
        ELSE (IF isAbs THEN <<"/">> ELSE <<>>) \o body
             \o (IF trail THEN <<"/">> ELSE <<>>)

\* paths.mjs line 4: joinRemote(a, b) = path.posix.join of the two parts
\* with their backslashes turned into slashes.
joinRemote(a, b) ==
    LET x == BackslashesToSlash(a)
        y == BackslashesToSlash(b)
    IN  IF x = <<>> THEN PosixNormalize(y)
        ELSE IF y = <<>> THEN PosixNormalize(x)
             ELSE PosixNormalize(x \o <<"/">> \o y)

\* paths.mjs line 6: remoteDirName = path.posix.dirname(normalizeRemote(p))
remoteDirName(p) ==
    LET n   == normalizeRemote(p)
        idx == LastIndexOf(n, "/")
    IN  IF idx = 0 THEN <<".">>
        ELSE IF idx = 1 THEN <<"/">>
             ELSE TrimEndOf(SubSeq(n, 1, idx - 1), {"/"})

\* deployer.mjs lines 51-52: releasesRoot and targetUploadDir (releasesDir
\* not set).
TargetDirJs(remoteDir, ts) ==
    joinRemote(joinRemote(remoteDirName(normalizeRemote(remoteDir)), ReleasesName), ts)

\* The files whose presence on the remote host is followed: a database and
\* a key-value store of the live application.
Db == <<"d", "b">>
Kv == <<"k", "v">>
KnownNames == {Db, Kv}

\* preserveFiles lists explored: usable entries, a parent traversal, an
\* absolute path, a newline, a tab, a blank entry, a backslash that becomes
\* a leading slash, an entry with a dollar sign, and no entry at all.
PreserveLists ==
    { <<>>,
      <<Db>>,
      <<Kv, Db>>,
      << <<".", ".", "/", "d", "b">> >>,
      << <<"/", "d", "b">> >>,
      << <<"d", "\n", "b">> >>,
      << <<"d", "\t", "b">> >>,
      << <<" ">>, Db >>,
      << Db, <<"d", "/", ".", ".", "/", ".", ".", "/", "x">> >>,
      << <<"$", "d", "b">> >>,
      << <<"\\", "d", "b">> >> }

\* remoteDir values explored: a plain path and one with a dollar sign in
\* the parent directory.
RemoteDirs == { <<"/", "s", "/", "w">>, <<"/", "$", "s", "/", "w">> }

\* preserveDir: not set (<<>>) or a directory.
PreserveDirs == { <<>>, <<"/", "p">> }

\* One piece of a command line: literal text of the program, or a value
\* interpolated into it.
Text(t)   == [kind |-> "text", text |-> t, chars |-> <<>>]
Value(cs) == [kind |-> "value", text |-> "", chars |-> cs]

VARIABLES
    pEngine,        \* "Deploy" (deployer.mjs) or "NetDeploy" (Deployer.cs)
    pRemoteDir,     \* config.remoteDir
    pPreserveDir,   \* config.preserveDir
    pEntries,       \* config.preserveFiles
    pHasActive,     \* remote: remoteDir exists (a release is live)
    pInActive,      \* remote: names present in the live release
    pInPreserveDir, \* remote: names present in preserveDir
    pLocal,         \* names the local tree ships
    pPc,            \* position of the run
    pDst,           \* remote: name -> content in the new release directory
    pDstBefore,     \* pDst when the preserve step started
    pCpOk,          \* names whose cp works when it is run
    pCopied,        \* names the preserve step copied
    pPreserved,     \* the preserve step ran to its end
    pCommands,      \* command lines sent to the remote shell so far
    pRemoteChanged, \* the run has changed something on the remote host
    pResult,        \* how the run ended
    pFailure        \* why it failed

preserveVars == <<pEngine, pRemoteDir, pPreserveDir, pEntries, pHasActive,
                  pInActive, pInPreserveDir, pLocal, pPc, pDst, pDstBefore,
                  pCpOk, pCopied, pPreserved, pCommands, pRemoteChanged,
                  pResult, pFailure>>

pConfig == <<pEngine, pRemoteDir, pPreserveDir, pEntries, pHasActive,
             pInActive, pInPreserveDir, pLocal>>

NoFiles == [n \in KnownNames |-> "none"]

InitPreserveRest ==
    /\ pPc = "start"
    /\ pDst = NoFiles
    /\ pDstBefore = NoFiles
    /\ pCpOk = {}
    /\ pCopied = {}
    /\ pPreserved = FALSE
    /\ pCommands = <<>>
    /\ pRemoteChanged = FALSE
    /\ pResult = "none"
    /\ pFailure = "none"

InitPreserve ==
    /\ pEngine \in {"Deploy", "NetDeploy"}
    /\ pRemoteDir \in RemoteDirs
    /\ pPreserveDir \in PreserveDirs
    /\ pEntries \in PreserveLists
    /\ pHasActive \in BOOLEAN
    /\ pInActive \in SUBSET KnownNames
    /\ ~pHasActive => pInActive = {}
    /\ pInPreserveDir \in SUBSET KnownNames
    /\ pPreserveDir = <<>> => pInPreserveDir = {}
    /\ pLocal \in SUBSET KnownNames
    /\ InitPreserveRest

ParkedPreserve ==
    /\ pEngine = "none"
    /\ pRemoteDir = <<>>
    /\ pPreserveDir = <<>>
    /\ pEntries = <<>>
    /\ pHasActive = FALSE
    /\ pInActive = {}
    /\ pInPreserveDir = {}
    /\ pLocal = {}
    /\ InitPreserveRest

\* The run ends with a throw.
pFail(why) ==
    /\ pPc' = "done"
    /\ pResult' = "failed"
    /\ pFailure' = why

\* Content of a name at a source place.
ContentIn(place, name) ==
    IF place = "preserveDir"
    THEN (IF name \in pInPreserveDir THEN "kept" ELSE "none")
    ELSE (IF name \in pInActive THEN "live" ELSE "none")

\* A copy that is run whether or not there is a source.
IsMissingNever(content) == FALSE

\* deployer.mjs line 102: [ -e "src" ] && ...; Deployer.cs line 212:
\* if [ -z "$src" ]; then ... continue
IsMissing(content) == content = "none"

\* The name a path has below a directory, <<>> when it is not below it.
RelativeTo(base, path) ==
    IF /\ Len(path) > Len(base) + 1
       /\ SubSeq(path, 1, Len(base)) = base
       /\ path[Len(base) + 1] = "/"
    THEN SubSeq(path, Len(base) + 2, Len(path))
    ELSE <<>>

\* Release directory of the run.
pTargetDir ==
    IF pEngine = "NetDeploy" THEN TargetDirCs(pRemoteDir, TsName(now))
    ELSE TargetDirJs(pRemoteDir, TsName(now))

\* Files of the new release directory after the upload of the local tree.
AfterUpload(dst) == [n \in KnownNames |-> IF n \in pLocal THEN "new" ELSE dst[n]]

\* Outcomes of Deployer.RunCommand (Deployer.cs lines 145-173): the command
\* exits with 0, or it fails and the operator picks Skip or Quit (Retry runs
\* the loop again).
RunCommandOutcomes == {"ok", "skip", "quit"}

\* Deployer.cs line 81: RunCommand(ssh, mkdir -p "{targetDir}")
CsMkdir ==
    /\ pEngine = "NetDeploy"
    /\ pPc = "start"
    /\ pCommands' = Append(pCommands,
          <<Text("mkdir -p \""), Value(pTargetDir), Text("\"")>>)
    /\ \E outcome \in RunCommandOutcomes :
          /\ pRemoteChanged' = (pRemoteChanged \/ outcome = "ok")
          /\ IF outcome = "quit" THEN pFail("quit")
             ELSE pPc' = "upload" /\ UNCHANGED <<pResult, pFailure>>
    /\ UNCHANGED <<pConfig, pDst, pDstBefore, pCpOk, pCopied, pPreserved>>

\* Deployer.cs line 82: UploadContent: the listing command of the diff
\* engine (DiffEngine.cs line 25), then the upload of the files.
CsUpload ==
    /\ pEngine = "NetDeploy"
    /\ pPc = "upload"
    /\ pCommands' = Append(pCommands,
          <<Text("[ -d \""), Value(pTargetDir), Text("\" ] && find \""),
            Value(pTargetDir), Text("\" -type f -printf '%P|%s\\n'")>>)
    /\ \E ok \in BOOLEAN :
          IF ok
          THEN /\ pDst' = AfterUpload(pDst)
               /\ pRemoteChanged' = (pRemoteChanged \/ pLocal # {})
               /\ pPc' = "preserve"
               /\ UNCHANGED <<pResult, pFailure>>
          ELSE /\ pFail("sftp")
               /\ UNCHANGED <<pDst, pRemoteChanged>>
    /\ UNCHANGED <<pConfig, pDstBefore, pCpOk, pCopied, pPreserved>>

\* The source the script picks for f (Deployer.cs lines 210-211):
\* preserveDir/f when preserveDir is set and holds it, else active/f.
SourceContentCs(f) ==
    IF f \notin KnownNames THEN "none"
    ELSE IF pPreserveDir # <<>> /\ ContentIn("preserveDir", f) # "none"
         THEN ContentIn("preserveDir", f)
         ELSE ContentIn("active", f)

\* The loop of the script (Deployer.cs lines 208-217) over the files:
\* a missing source and an existing destination are passed over.
RECURSIVE ScriptLoopCs(_, _, _)
ScriptLoopCs(list, acc, cpOk) ==
    IF list = <<>> THEN acc
    ELSE LET f == Head(list)
             content == SourceContentCs(f)
         IN  IF IsMissing(content) \/ f \notin KnownNames
             THEN ScriptLoopCs(Tail(list), acc, cpOk)
             ELSE IF acc.dst[f] # "none"
                  THEN ScriptLoopCs(Tail(list), acc, cpOk)
                  ELSE IF f \in cpOk
                       THEN ScriptLoopCs(Tail(list),
                               [dst |-> [acc.dst EXCEPT ![f] = content],
                                copied |-> acc.copied \cup {f}], cpOk)
                       ELSE ScriptLoopCs(Tail(list), acc, cpOk)

\* Deployer.cs lines 192-195: the quoted, escaped file names.
RECURSIVE FilesListCs(_)
FilesListCs(list) ==
    IF list = <<>> THEN <<>>
    ELSE <<Text("\""), Value(EscapeForBashDoubleQuotes(Head(list))), Text("\" ")>>
         \o FilesListCs(Tail(list))

\* Deployer.cs lines 187-217: the command line of the script.
ScriptCs(list) ==
    <<Text("remoteDir=\""),
      Value(EscapeForBashDoubleQuotes(RemoteDirCs(pRemoteDir))),
      Text("\"; targetDir=\""),
      Value(EscapeForBashDoubleQuotes(pTargetDir)),
      Text("\"; preserveDir=\""),
      Value(EscapeForBashDoubleQuotes(TrimEndOf(pPreserveDir, {"/"}))),
      Text("\"; active=$(readlink -f -- \"$remoteDir\"); for f in ")>>
    \o FilesListCs(list)
    \o <<Text("; do ... done")>>

\* Deployer.cs lines 86-89 and 175-221: validation, then the script in one
\* RunCommand; the script ends with the status of its last echo or continue.
CsPreserve ==
    /\ pEngine = "NetDeploy"
    /\ pPc = "preserve"
    /\ pDstBefore' = pDst
    /\ IF Len(pEntries) = 0
       THEN /\ pPc' = "link"
            /\ UNCHANGED <<pDst, pCpOk, pCopied, pPreserved, pCommands,
                           pRemoteChanged, pResult, pFailure>>
       ELSE LET v == NormalizeAndValidatePreserveFiles(pEntries) IN
            IF v.rejected
            THEN /\ pFail("rejected")
                 /\ UNCHANGED <<pDst, pCpOk, pCopied, pPreserved, pCommands,
                                pRemoteChanged>>
            ELSE IF Len(v.list) = 0
                 THEN /\ pPc' = "link"
                      /\ UNCHANGED <<pDst, pCpOk, pCopied, pPreserved, pCommands,
                                     pRemoteChanged, pResult, pFailure>>
                 ELSE \E cpOk \in SUBSET KnownNames :
                         LET out == ScriptLoopCs(v.list,
                                       [dst |-> pDst, copied |-> {}], cpOk)
                         IN  /\ pCpOk' = cpOk
                             /\ pDst' = out.dst
                             /\ pCopied' = out.copied
                             /\ pPreserved' = TRUE
                             /\ pCommands' = Append(pCommands, ScriptCs(v.list))
                             /\ pRemoteChanged' = (pRemoteChanged \/ out.copied # {})
                             /\ pPc' = "link"
                             /\ UNCHANGED <<pResult, pFailure>>
    /\ UNCHANGED pConfig

\* Deployer.cs lines 91-92: RunCommand(ssh, ln -sfn "{targetDir}" "{RemoteDir}")
CsLink ==
    /\ pEngine = "NetDeploy"
    /\ pPc = "link"
    /\ pCommands' = Append(pCommands,
          <<Text("ln -sfn \""), Value(pTargetDir), Text("\" \""),
            Value(pRemoteDir), Text("\"")>>)
    /\ \E outcome \in RunCommandOutcomes :
          /\ pRemoteChanged' = (pRemoteChanged \/ outcome = "ok")
          /\ pPc' = "done"
          /\ IF outcome = "quit"
             THEN pResult' = "failed" /\ pFailure' = "quit"
             ELSE pResult' = "success" /\ UNCHANGED pFailure
    /\ UNCHANGED <<pConfig, pDst, pDstBefore, pCpOk, pCopied, pPreserved>>

\* deployer.mjs lines 49-57: exists and mkdir over SFTP.
JsPrepare ==
    /\ pEngine = "Deploy"
    /\ pPc = "start"
    /\ \E ok \in BOOLEAN :
          IF ok
          THEN /\ pRemoteChanged' = TRUE
               /\ pPc' = "upload"
               /\ UNCHANGED <<pResult, pFailure>>
          ELSE /\ pFail("sftp")
               /\ UNCHANGED pRemoteChanged
    /\ UNCHANGED <<pConfig, pDst, pDstBefore, pCpOk, pCopied, pPreserved, pCommands>>

\* deployer.mjs lines 81-86: the upload of the local tree.
JsTransfer ==
    /\ pEngine = "Deploy"
    /\ pPc = "upload"
    /\ \E ok \in BOOLEAN :
          IF ok
          THEN /\ pDst' = AfterUpload(pDst)
               /\ pPc' = "preserve"
               /\ UNCHANGED <<pResult, pFailure>>
          ELSE /\ pFail("sftp")
               /\ UNCHANGED pDst
    /\ UNCHANGED <<pConfig, pDstBefore, pCpOk, pCopied, pPreserved, pCommands,
                   pRemoteChanged>>

\* deployer.mjs line 91: sourceBase, and the place it stands for.
SourceBaseJs == IF pPreserveDir # <<>> THEN normalizeRemote(pPreserveDir)
                ELSE normalizeRemote(pRemoteDir)

SourcePlaceJs == IF pPreserveDir # <<>> THEN "preserveDir" ELSE "active"

\* deployer.mjs lines 95-108: one command per entry; a command that fails
\* is logged and the loop goes on.
RECURSIVE PreserveLoopJs(_, _, _)
PreserveLoopJs(entries, acc, cpOk) ==
    IF entries = <<>> THEN acc
    ELSE LET f == Head(entries)
             src == joinRemote(SourceBaseJs, f)
             dest == joinRemote(pTargetDir, f)
             srcName == RelativeTo(SourceBaseJs, src)
             destName == RelativeTo(pTargetDir, dest)
             content == IF srcName \in KnownNames
                        THEN ContentIn(SourcePlaceJs, srcName) ELSE "none"
             command == <<Text("[ -e \""), Value(src), Text("\" ] && cp -rp \""),
                          Value(src), Text("\" \""), Value(dest),
                          Text("\" || true")>>
             copies == ~IsMissing(content) /\ destName \in KnownNames
                       /\ destName \in cpOk
         IN  PreserveLoopJs(Tail(entries),
                [dst |-> IF copies THEN [acc.dst EXCEPT ![destName] = content]
                         ELSE acc.dst,
                 copied |-> IF copies THEN acc.copied \cup {destName}
                            ELSE acc.copied,
                 commands |-> Append(acc.commands, command)], cpOk)

\* deployer.mjs lines 88-110: no entry, or sourceBase does not exist: no
\* copy; exists(sourceBase) may throw.
JsPreserve ==
    /\ pEngine = "Deploy"
    /\ pPc = "preserve"
    /\ pDstBefore' = pDst
    /\ IF Len(pEntries) = 0
       THEN /\ pPc' = "link"
            /\ UNCHANGED <<pDst, pCpOk, pCopied, pPreserved, pCommands,
                           pRemoteChanged, pResult, pFailure>>
       ELSE \E ok \in BOOLEAN, cpOk \in SUBSET KnownNames :
               IF ~ok
               THEN /\ cpOk = {}
                    /\ pFail("sftp")
                    /\ UNCHANGED <<pDst, pCpOk, pCopied, pPreserved, pCommands,
                                   pRemoteChanged>>
               ELSE LET exists == pPreserveDir # <<>> \/ pHasActive
                        out == IF exists
                               THEN PreserveLoopJs(pEntries,
                                       [dst |-> pDst, copied |-> {},
                                        commands |-> pCommands], cpOk)
                               ELSE [dst |-> pDst, copied |-> {},
                                     commands |-> pCommands]
                    IN  /\ pCpOk' = cpOk
                        /\ pDst' = out.dst
                        /\ pCopied' = out.copied
                        /\ pCommands' = out.commands
                        /\ pPreserved' = TRUE
                        /\ pRemoteChanged' = (pRemoteChanged \/ out.copied # {})
                        /\ pPc' = "link"
                        /\ UNCHANGED <<pResult, pFailure>>
    /\ UNCHANGED pConfig

\* deployer.mjs lines 113-115: ln -sfn through runCommandsOverSSH.
JsSwap ==
    /\ pEngine = "Deploy"
    /\ pPc = "link"
    /\ pCommands' = Append(pCommands,
          <<Text("ln -sfn \""), Value(pTargetDir), Text("\" \""),
            Value(normalizeRemote(pRemoteDir)), Text("\"")>>)
    /\ \E ok \in BOOLEAN :
          /\ pRemoteChanged' = (pRemoteChanged \/ ok)
          /\ pPc' = "done"
          /\ IF ok THEN pResult' = "success" /\ UNCHANGED pFailure
             ELSE pResult' = "failed" /\ pFailure' = "command"
    /\ UNCHANGED <<pConfig, pDst, pDstBefore, pCpOk, pCopied, pPreserved>>

\* ---------------------------------------------------------------------------
\* Entry points: configuration validation before the deployer starts.
\*   part_014 main (modular JavaScript entry), Program.Main (C#),
\*   main.mjs (legacy single-file JavaScript deployer).
\* A profile is the set of fields the user supplied; a field is TRUE when it
\* holds a non-empty value.
\* ---------------------------------------------------------------------------

EntryPoints == {"js", "cs", "legacy"}

ProfileFields ==
    {"host", "username", "remoteDir", "localDir", "privateKeyPath", "password", "preCommands"}

Profiles == [ProfileFields -> BOOLEAN]

\* builtinDefaults of the JavaScript loaders supply host and localDir;
\* MergeDefaults of the C# profile has no built-in values.
builtinDefaults == {"host", "localDir"}

Merged(entry, profile) ==
    [f \in ProfileFields |->
        IF entry \in {"js", "legacy"} /\ f \in builtinDefaults THEN TRUE ELSE profile[f]]

VARIABLES cEntry, cProfile, cLocalDirExists, cKeyFileExists, cDryRun, cPc,
          cAttempts, cCommands, cReport

configVars ==
    <<cEntry, cProfile, cLocalDirExists, cKeyFileExists, cDryRun, cPc,
      cAttempts, cCommands, cReport>>

cConfig == Merged(cEntry, cProfile)

InitConfigRest ==
    /\ cPc = "start"
    /\ cAttempts = 0
    /\ cCommands = FALSE
    /\ cReport = "none"

InitConfig ==
    /\ cEntry \in EntryPoints
    /\ cProfile \in Profiles
    /\ cLocalDirExists \in BOOLEAN
    /\ cKeyFileExists \in BOOLEAN
    /\ cDryRun \in (IF cEntry = "cs" THEN {FALSE} ELSE BOOLEAN)
    /\ InitConfigRest

ParkedConfig ==
    /\ cEntry = "js"
    /\ cProfile = [f \in ProfileFields |-> FALSE]
    /\ cLocalDirExists = FALSE
    /\ cKeyFileExists = FALSE
    /\ cDryRun = FALSE
    /\ InitConfigRest

cStay == UNCHANGED <<cEntry, cProfile, cLocalDirExists, cKeyFileExists, cDryRun>>

cExit(report) ==
    /\ cPc' = "exit"
    /\ cReport' = report
    /\ UNCHANGED <<cAttempts, cCommands>>

cProceed ==
    /\ cPc' = "run"
    /\ UNCHANGED <<cAttempts, cCommands, cReport>>

\* part_014 main: dry run prints and exits; the only checks are that the
\* local directory exists and that remoteDir is set.
MainJsInvalid == ~cLocalDirExists \/ ~cConfig["remoteDir"]

MainJs ==
    /\ cEntry = "js"
    /\ cPc = "start"
    /\ IF cDryRun THEN cExit("none")
       ELSE IF MainJsInvalid THEN cExit("config")
       ELSE cProceed
    /\ cStay

\* Program.Main: Host, RemoteDir, LocalDir and Directory.Exists(LocalDir).
ProgramMainInvalid ==
    \/ ~cConfig["host"]
    \/ ~cConfig["remoteDir"]
    \/ ~cConfig["localDir"]
    \/ ~cLocalDirExists

ProgramMain ==
    /\ cEntry = "cs"
    /\ cPc = "start"
    /\ IF ProgramMainInvalid THEN cExit("config") ELSE cProceed
    /\ cStay

\* main.mjs: the dry-run branch lists what is missing and makes no connection;
\* the strict branch fails on the first missing item.
StrictInvalid ==
    \/ ~cConfig["username"]
    \/ (~cConfig["privateKeyPath"] /\ ~cConfig["password"])
    \/ ~cConfig["remoteDir"]
    \/ ~cLocalDirExists
    \/ (cConfig["privateKeyPath"] /\ ~cKeyFileExists)

StrictValidation ==
    /\ cEntry = "legacy"
    /\ cPc = "start"
    /\ IF StrictInvalid THEN cExit("config")
       ELSE IF cDryRun THEN cExit("none")
       ELSE cProceed
    /\ cStay

\* A connection attempt and what runs on it.  Pre-commands go over their own
\* SSH connection (runCommandsOverSSH) before the SFTP connection is made;
\* the server decides whether a connection is accepted.
PreAttempts == IF cConfig["preCommands"] THEN 1 ELSE 0

\* Deployer.run (deployer.mjs): pre-commands, then this.client.connect.
\* readFileSync of a key path that does not exist throws before both.
DeployerRunJs ==
    /\ cEntry = "js"
    /\ cPc = "run"
    /\ IF cConfig["privateKeyPath"] /\ ~cKeyFileExists
       THEN /\ cPc' = "exit"
            /\ cReport' = "failed"
            /\ UNCHANGED <<cAttempts, cCommands>>
       ELSE \E preOk \in BOOLEAN, connOk \in BOOLEAN :
            /\ cAttempts' = cAttempts + PreAttempts + (IF cConfig["preCommands"] /\ ~preOk THEN 0 ELSE 1)
            /\ cCommands' = (cConfig["preCommands"] /\ preOk)
            /\ cPc' = "exit"
            /\ cReport' = IF (cConfig["preCommands"] /\ ~preOk) \/ ~connOk THEN "failed" ELSE "none"
    /\ cStay

\* Deployer.RunAsync (C#): CreateConnectionInfo, then client.Connect and
\* sftp.Connect, then the pre-commands on the connected client.  The key file
\* is read, and the ConnectionInfo is built, before any Connect: both throw
\* on a missing key file, an empty username or an empty list of
\* authentication methods.
CreateConnectionInfoThrows ==
    \/ (cConfig["privateKeyPath"] /\ ~cKeyFileExists)
    \/ ~cConfig["username"]
    \/ (~cConfig["privateKeyPath"] /\ ~cConfig["password"])

RunAsync ==
    /\ cEntry = "cs"
    /\ cPc = "run"
    /\ IF CreateConnectionInfoThrows
       THEN /\ cPc' = "exit"
            /\ cReport' = "failed"
            /\ UNCHANGED <<cAttempts, cCommands>>
       ELSE \E connOk \in BOOLEAN :
            /\ cAttempts' = cAttempts + (IF connOk THEN 2 ELSE 1)
            /\ cCommands' = (connOk /\ cConfig["preCommands"])
            /\ cPc' = "exit"
            /\ cReport' = IF connOk THEN "none" ELSE "failed"
    /\ cStay

\* main.mjs deployment block: pre-commands, then client.connect.
LegacyRun ==
    /\ cEntry = "legacy"
    /\ cPc = "run"
    /\ \E preOk \in BOOLEAN, connOk \in BOOLEAN :
         /\ cAttempts' = cAttempts + PreAttempts + (IF cConfig["preCommands"] /\ ~preOk THEN 0 ELSE 1)
         /\ cCommands' = (cConfig["preCommands"] /\ preOk)
         /\ cPc' = "exit"
         /\ cReport' = IF (cConfig["preCommands"] /\ ~preOk) \/ ~connOk THEN "failed" ELSE "none"
    /\ cStay

\* ---------------------------------------------------------------------------
\* Tar transfer with concurrent workers.
\*   uploadTar (sftp.mjs): `concurrency` worker() loops share one queue of
\*   batches and the SFTP client the deployer passed in.
\*   TarDeployment.UploadAsync/ProcessBatchAsync (C#): Parallel.ForEachAsync
\*   with MaxDegreeOfParallelism = Concurrency.
\* A session is <<kind, n>>: n = 0 is the deployer's own connection, n > 0 a
\* connection opened while batch n is processed.
\* ---------------------------------------------------------------------------

\* Largest concurrency setting explored.
MaxConcurrency == 2

\* Largest number of batches explored.
MaxBatches == 3

Workers == 1..MaxConcurrency

MainSftp == <<"sftp", 0>>
MainSsh == <<"ssh", 0>>

VARIABLES
    tEngine,       \* "Deploy" (uploadTar) or "NetDeploy" (TarDeployment)
    tConcurrency,  \* config.concurrency
    tBatchCount,   \* number of batches created
    tPc,           \* "init", "running", then "done", or "aborted" and "exited"
    tQueue,        \* batches not yet taken, in order
    tWorkerPc,     \* per worker: "off", "idle", "put", "extract", "done", "failed"
    tWorkerBatch,  \* per worker: the batch in hand, 0 for none
    tUses,         \* every use of a session: [session, worker, op, batch]
    tTaken,        \* per batch: how many times it was taken off the queue
    tUploaded,     \* batches whose archive was uploaded
    tExtracted,    \* batches that were extracted on the target
    tLate          \* worker steps taken after the deployer saw the failure

tarVars == <<tEngine, tConcurrency, tBatchCount, tPc, tQueue, tWorkerPc, tWorkerBatch,
             tUses, tTaken, tUploaded, tExtracted, tLate>>

InitTarRest ==
    /\ tPc = "init"
    /\ tQueue = <<>>
    /\ tWorkerPc = [w \in Workers |-> "off"]
    /\ tWorkerBatch = [w \in Workers |-> 0]
    /\ tUses = {}
    /\ tTaken = [b \in 1..MaxBatches |-> 0]
    /\ tUploaded = {}
    /\ tExtracted = {}
    /\ tLate = {}

InitTar ==
    /\ tEngine \in {"Deploy", "NetDeploy"}
    /\ tConcurrency \in 1..MaxConcurrency
    /\ tBatchCount \in 0..MaxBatches
    /\ InitTarRest

ParkedTar ==
    /\ tEngine = "Deploy"
    /\ tConcurrency = 1
    /\ tBatchCount = 0
    /\ InitTarRest

tFixed == UNCHANGED <<tEngine, tConcurrency, tBatchCount>>

Use(session, w, op) == [session |-> session, worker |-> w, op |-> op, batch |-> tWorkerBatch[w]]

Min(a, b) == IF a < b THEN a ELSE b

\* A pool that starts one worker per unit of concurrency, whatever the
\* number of batches.
threadCountUncapped(concurrency, batchCount) == concurrency

\* const threadCount = Math.min(concurrency, batches.length)
threadCount(concurrency, batchCount) == Min(concurrency, batchCount)

\* A Promise.all that resolves as soon as one worker has finished.
SettledAny(pcs) == \E w \in Workers : pcs[w] = "done"

\* await Promise.all(activeWorkers): every started worker has left its loop.
Settled(pcs) == \A w \in Workers : pcs[w] \in {"off", "done"}

\* What a worker does once the deployer has seen the failure.
Late(w, op, batch) ==
    IF tPc = "aborted" THEN tLate \cup {[worker |-> w, op |-> op, batch |-> batch]}
    ELSE tLate

\* uploadTar: queue = [...batches.entries()]; threadCount workers are
\* started, and each runs up to its first await: it shifts one batch off the
\* queue and starts the local tar.
StartUploadTar ==
    /\ tEngine = "Deploy"
    /\ tPc = "init"
    /\ tPc' = "running"
    /\ LET n == threadCount(tConcurrency, tBatchCount) IN
       /\ tQueue' = [i \in 1..(tBatchCount - n) |-> n + i]
       /\ tWorkerPc' = [w \in Workers |-> IF w <= n THEN "put" ELSE "off"]
       /\ tWorkerBatch' = [w \in Workers |-> IF w <= n THEN w ELSE 0]
       /\ tTaken' = [b \in 1..MaxBatches |-> IF b <= n THEN 1 ELSE 0]
    /\ UNCHANGED <<tUses, tUploaded, tExtracted, tLate>>
    /\ tFixed

\* processBatch: await client.put(tarPath, remoteTarPath) on the client that
\* uploadTar received; a failure ends the worker.  A put on the client the
\* deployer has ended fails.
WorkerPut(w) ==
    /\ tEngine = "Deploy"
    /\ tPc \in {"running", "aborted"}
    /\ tWorkerPc[w] = "put"
    /\ tUses' = tUses \cup {Use(MainSftp, w, "put")}
    /\ tLate' = Late(w, "put", tWorkerBatch[w])
    /\ \E ok \in BOOLEAN :
          /\ tPc = "aborted" => ~ok
          /\ tWorkerPc' = [tWorkerPc EXCEPT ![w] = IF ok THEN "extract" ELSE "failed"]
          /\ tUploaded' = IF ok THEN tUploaded \cup {tWorkerBatch[w]} ELSE tUploaded
    /\ UNCHANGED <<tPc, tQueue, tWorkerBatch, tTaken, tExtracted>>
    /\ tFixed

\* processBatch: runCommandsOverSSH opens its own connection for the
\* extract commands; then worker() loops: it shifts the next batch off the
\* queue and starts its tar, or leaves the loop.
WorkerExtract(w) ==
    /\ tEngine = "Deploy"
    /\ tPc \in {"running", "aborted"}
    /\ tWorkerPc[w] = "extract"
    /\ tUses' = tUses \cup {Use(<<"ssh", tWorkerBatch[w]>>, w, "extract")}
    /\ \E ok \in BOOLEAN :
          IF ~ok
          THEN /\ tWorkerPc' = [tWorkerPc EXCEPT ![w] = "failed"]
               /\ tLate' = Late(w, "extract", tWorkerBatch[w])
               /\ UNCHANGED <<tQueue, tWorkerBatch, tTaken, tExtracted>>
          ELSE IF tQueue # <<>>
          THEN /\ tWorkerPc' = [tWorkerPc EXCEPT ![w] = "put"]
               /\ tWorkerBatch' = [tWorkerBatch EXCEPT ![w] = Head(tQueue)]
               /\ tTaken' = [tTaken EXCEPT ![Head(tQueue)] = @ + 1]
               /\ tQueue' = Tail(tQueue)
               /\ tExtracted' = tExtracted \cup {tWorkerBatch[w]}
               /\ tLate' = IF tPc = "aborted"
                           THEN tLate \cup
                                {[worker |-> w, op |-> "extract", batch |-> tWorkerBatch[w]],
                                 [worker |-> w, op |-> "start", batch |-> Head(tQueue)]}
                           ELSE tLate
          ELSE /\ tWorkerPc' = [tWorkerPc EXCEPT ![w] = "done"]
               /\ tExtracted' = tExtracted \cup {tWorkerBatch[w]}
               /\ tLate' = Late(w, "extract", tWorkerBatch[w])
               /\ UNCHANGED <<tQueue, tWorkerBatch, tTaken>>
    /\ UNCHANGED <<tPc, tUploaded>>
    /\ tFixed

\* await Promise.all(activeWorkers) resolves: uploadTar returns.
UploadTarReturns ==
    /\ tEngine = "Deploy"
    /\ tPc = "running"
    /\ Settled(tWorkerPc)
    /\ tPc' = "done"
    /\ UNCHANGED <<tQueue, tWorkerPc, tWorkerBatch, tUses, tTaken, tUploaded, tExtracted, tLate>>
    /\ tFixed

\* Promise.all rejects with the first failure: uploadTar throws into
\* Deployer.run, whose finally block awaits this.client.end().  The other
\* workers are not told; their callbacks keep running while end() is awaited.
UploadTarThrows ==
    /\ tEngine = "Deploy"
    /\ tPc = "running"
    /\ \E w \in Workers : tWorkerPc[w] = "failed"
    /\ tPc' = "aborted"
    /\ UNCHANGED <<tQueue, tWorkerPc, tWorkerBatch, tUses, tTaken, tUploaded, tExtracted, tLate>>
    /\ tFixed

\* main: catch (e) { console.error(...); process.exit(1) } once run() has
\* rejected.
ProcessExit ==
    /\ tEngine = "Deploy"
    /\ tPc = "aborted"
    /\ tPc' = "exited"
    /\ UNCHANGED <<tQueue, tWorkerPc, tWorkerBatch, tUses, tTaken, tUploaded, tExtracted, tLate>>
    /\ tFixed

\* TarDeployment.UploadAsync: mkdir -p on the deployer's connection, then
\* Parallel.ForEachAsync over the batches with Concurrency tasks at a time.
StartUploadAsync ==
    /\ tEngine = "NetDeploy"
    /\ tPc = "init"
    /\ tPc' = "running"
    /\ tQueue' = [i \in 1..tBatchCount |-> i]
    /\ tWorkerPc' = [w \in Workers |-> IF w <= tConcurrency THEN "idle" ELSE "off"]
    /\ tUses' = tUses \cup {[session |-> MainSsh, worker |-> 0, op |-> "mkdir", batch |-> 0]}
    /\ UNCHANGED <<tWorkerBatch, tTaken, tUploaded, tExtracted, tLate>>
    /\ tFixed

\* ProcessBatchAsync, first part: new SshClient and new SftpClient for this
\* batch, Connect on both, then the local tar.  No batch is handed out
\* once a batch has failed.
ProcessBatchConnect(w) ==
    /\ tEngine = "NetDeploy"
    /\ tPc = "running"
    /\ tWorkerPc[w] = "idle"
    /\ tQueue # <<>>
    /\ \A v \in Workers : tWorkerPc[v] # "failed"
    /\ LET b == Head(tQueue) IN
       /\ tWorkerBatch' = [tWorkerBatch EXCEPT ![w] = b]
       /\ tTaken' = [tTaken EXCEPT ![b] = @ + 1]
       /\ tUses' = tUses \cup
             {[session |-> <<"ssh", b>>, worker |-> w, op |-> "connect", batch |-> b],
              [session |-> <<"sftp", b>>, worker |-> w, op |-> "connect", batch |-> b]}
    /\ tQueue' = Tail(tQueue)
    /\ \E ok \in BOOLEAN :
          tWorkerPc' = [tWorkerPc EXCEPT ![w] = IF ok THEN "put" ELSE "failed"]
    /\ UNCHANGED <<tPc, tUploaded, tExtracted, tLate>>
    /\ tFixed

\* ProcessBatchAsync: sftp.UploadFile on the batch's own SftpClient.
ProcessBatchUpload(w) ==
    /\ tEngine = "NetDeploy"
    /\ tPc = "running"
    /\ tWorkerPc[w] = "put"
    /\ tUses' = tUses \cup {Use(<<"sftp", tWorkerBatch[w]>>, w, "put")}
    /\ \E ok \in BOOLEAN :
          /\ tWorkerPc' = [tWorkerPc EXCEPT ![w] = IF ok THEN "extract" ELSE "failed"]
          /\ tUploaded' = IF ok THEN tUploaded \cup {tWorkerBatch[w]} ELSE tUploaded
    /\ UNCHANGED <<tPc, tQueue, tWorkerBatch, tTaken, tExtracted, tLate>>
    /\ tFixed

\* ProcessBatchAsync: the extract command on the batch's own SshClient;
\* both clients are disconnected and the task takes the next batch.
ProcessBatchExtract(w) ==
    /\ tEngine = "NetDeploy"
    /\ tPc = "running"
    /\ tWorkerPc[w] = "extract"
    /\ tUses' = tUses \cup {Use(<<"ssh", tWorkerBatch[w]>>, w, "extract")}
    /\ \E ok \in BOOLEAN :
          /\ tWorkerPc' = [tWorkerPc EXCEPT ![w] = IF ok THEN "idle" ELSE "failed"]
          /\ tExtracted' = IF ok THEN tExtracted \cup {tWorkerBatch[w]} ELSE tExtracted
    /\ UNCHANGED <<tPc, tQueue, tWorkerBatch, tTaken, tUploaded, tLate>>
    /\ tFixed

\* Parallel.ForEachAsync completes when every body has ended: normally when
\* the batches are used up, with the exception of a failed body otherwise.
\* UploadAsync returns or throws only then.
UploadAsyncEnds ==
    /\ tEngine = "NetDeploy"
    /\ tPc = "running"
    /\ \A w \in Workers : tWorkerPc[w] \in {"off", "idle", "failed"}
    /\ IF \E w \in Workers : tWorkerPc[w] = "failed"
       THEN tPc' = "exited"
       ELSE tQueue = <<>> /\ tPc' = "done"
    /\ UNCHANGED <<tQueue, tWorkerPc, tWorkerBatch, tUses, tTaken, tUploaded, tExtracted, tLate>>
    /\ tFixed

\* ---------------------------------------------------------------------------
\* In-place strategy: validation of the remote path, preparation of
\* remoteDir (archive, clean, create) and the start of the transfer.
\*   part_014 main with Deployer.run (deployer.mjs), main.mjs (legacy
\*   single-file deployer, no preserveFiles), Program.Main with
\*   Deployer.RunAsync (C#).
\* remoteDir is "missing", or holds its former content ("old"), or is a
\* directory this run created ("empty").
\* ---------------------------------------------------------------------------

\* remoteDir values explored: one and two segments, with and without a
\* trailing slash.
InplaceRemoteDirs ==
    { <<"/", "w">>, <<"/", "w", "/">>, <<"/", "s", "/", "w">>, <<"/", "s", "/", "w", "/">> }

\* minRemoteDepth values explored; 2 is the built-in default.
MinRemoteDepths == {1, 2, 3}

\* main.mjs line 253: remoteDirNorm.split('/').filter(Boolean)
remoteSegments(remoteDir) ==
    SelectSeq(Segments(normalizeRemote(remoteDir), <<>>), LAMBDA s : s # <<>>)

VARIABLES
    iEngine,           \* "Deploy", "legacy" or "NetDeploy"
    iRemoteDir,        \* config.remoteDir
    iMinRemoteDepth,   \* config.minRemoteDepth
    iArchiveExisting,  \* config.archiveExisting
    iCleanRemote,      \* config.cleanRemote
    iExisted,          \* remoteDir existed when the run started
    iPc,               \* "start", "connect", "prepare", "transfer", "done", "failed"
    iRemote,           \* "missing", "old" or "empty"
    iArchive,          \* "none", or "old": the archive path holds the former content
    iDeleted,          \* the former content was deleted
    iOps               \* remote operations issued so far

inplaceVars == <<iEngine, iRemoteDir, iMinRemoteDepth, iArchiveExisting, iCleanRemote,
                 iExisted, iPc, iRemote, iArchive, iDeleted, iOps>>

InitInplaceRest ==
    /\ iPc = "start"
    /\ iRemote = (IF iExisted THEN "old" ELSE "missing")
    /\ iArchive = "none"
    /\ iDeleted = FALSE
    /\ iOps = {}

InitInplace ==
    /\ iEngine \in {"Deploy", "legacy", "NetDeploy"}
    /\ iRemoteDir \in InplaceRemoteDirs
    /\ iMinRemoteDepth \in MinRemoteDepths
    /\ iArchiveExisting \in BOOLEAN
    /\ iCleanRemote \in BOOLEAN
    /\ iExisted \in BOOLEAN
    /\ InitInplaceRest

ParkedInplace ==
    /\ iEngine = "Deploy"
    /\ iRemoteDir = <<"/", "s", "/", "w">>
    /\ iMinRemoteDepth = 2
    /\ iArchiveExisting = FALSE
    /\ iCleanRemote = FALSE
    /\ iExisted = FALSE
    /\ InitInplaceRest

iFixed ==
    UNCHANGED <<iEngine, iRemoteDir, iMinRemoteDepth, iArchiveExisting, iCleanRemote, iExisted>>

iRemoteFixed == UNCHANGED <<iRemote, iArchive, iDeleted>>

\* main.mjs line 314: remoteSegments.length < minRemoteDepth
TooShallow(remoteDir, minRemoteDepth) == Len(remoteSegments(remoteDir)) < minRemoteDepth

\* part_014 main, lines 31-39: localDir exists and remoteDir is set; both
\* hold here.  No check of the depth of remoteDir.
ValidateJs ==
    /\ iEngine = "Deploy"
    /\ iPc = "start"
    /\ iPc' = "connect"
    /\ UNCHANGED iOps
    /\ iRemoteFixed
    /\ iFixed

\* main.mjs strict validation, lines 304-320.
ValidateLegacy ==
    /\ iEngine = "legacy"
    /\ iPc = "start"
    /\ iPc' = IF TooShallow(iRemoteDir, iMinRemoteDepth) THEN "failed" ELSE "connect"
    /\ UNCHANGED iOps
    /\ iRemoteFixed
    /\ iFixed

\* Program.Main validation: Host, RemoteDir, LocalDir; MinRemoteDepth is a
\* field of the profile that nothing reads.
ValidateCs ==
    /\ iEngine = "NetDeploy"
    /\ iPc = "start"
    /\ iPc' = "connect"
    /\ UNCHANGED iOps
    /\ iRemoteFixed
    /\ iFixed

\* client.connect / client.Connect.
ConnectInplace ==
    /\ iPc = "connect"
    /\ iOps' = iOps \cup {"connect"}
    /\ \E ok \in BOOLEAN : iPc' = IF ok THEN "prepare" ELSE "failed"
    /\ iRemoteFixed
    /\ iFixed

\* The remote operations the preparation issues, in order.
\* deployer.mjs lines 62-77 and main.mjs lines 505-535: archive wins over
\* clean; the directory is created again, or created if it was missing.
PrepareOpsJs ==
    IF iRemote # "missing"
    THEN IF iArchiveExisting THEN <<"rename", "mkdir">>
         ELSE IF iCleanRemote THEN <<"rmdir", "mkdir">>
         ELSE <<>>
    ELSE <<"mkdir">>

\* Deployer.RunAsync, in-place branch: UploadContent(client, sftp,
\* RemoteDir) with nothing before it; ArchiveExisting and CleanRemote are
\* fields of the profile that nothing reads.
PrepareOpsCs == <<>>

\* The state of the remote after one operation.
AfterOp(st, op) ==
    IF op = "rename" THEN [remote |-> "missing", archive |-> st.remote, deleted |-> st.deleted]
    ELSE IF op = "rmdir" THEN [remote |-> "missing", archive |-> st.archive, deleted |-> TRUE]
    ELSE [remote |-> "empty", archive |-> st.archive, deleted |-> st.deleted]

RECURSIVE AfterOps(_, _)
AfterOps(st, ops) ==
    IF ops = <<>> THEN st ELSE AfterOps(AfterOp(st, Head(ops)), Tail(ops))

\* The first k operations of `ops` succeed; the next one, if any, throws.
PrepareWith(ops) ==
    \E k \in 0..Len(ops) :
       LET st == AfterOps([remote |-> iRemote, archive |-> iArchive, deleted |-> iDeleted],
                          SubSeq(ops, 1, k))
       IN  /\ iRemote' = st.remote
           /\ iArchive' = st.archive
           /\ iDeleted' = st.deleted
           /\ iOps' = iOps \cup {ops[j] : j \in 1..Min(k + 1, Len(ops))}
           /\ iPc' = IF k = Len(ops) THEN "transfer" ELSE "failed"

PrepareJs ==
    /\ iEngine = "Deploy"
    /\ iPc = "prepare"
    /\ PrepareWith(PrepareOpsJs)
    /\ iFixed

PrepareLegacy ==
    /\ iEngine = "legacy"
    /\ iPc = "prepare"
    /\ PrepareWith(PrepareOpsJs)
    /\ iFixed

PrepareCs ==
    /\ iEngine = "NetDeploy"
    /\ iPc = "prepare"
    /\ PrepareWith(PrepareOpsCs)
    /\ iFixed

\* The transfer: uploadDir / the strategy's UploadAsync, which creates the
\* directories it needs (mkdir -p) and writes the local files over what is
\* there.
TransferInplace ==
    /\ iPc = "transfer"
    /\ iOps' = iOps \cup {"upload"}
    /\ \E ok \in BOOLEAN : iPc' = IF ok THEN "done" ELSE "failed"
    /\ iRemote' = IF iRemote = "missing" THEN "empty" ELSE iRemote
    /\ UNCHANGED <<iArchive, iDeleted>>
    /\ iFixed

\* ---------------------------------------------------------------------------
\* The sequence of steps of one run: Deployer.run (deployer.mjs) and
\* Deployer.RunAsync with RunSymlinkStrategy and UploadContent (Deployer.cs).
\* The log holds every step that was started, with how it ended.
\* ---------------------------------------------------------------------------

\* Largest number of pre-commands, and of post-commands, explored.
MaxCommands == 2

IfSeq(cond, seq) == IF cond THEN seq ELSE <<>>

\* A run that executes the post-commands before the release is switched.
StepsPostFirst(engine, strategy, preserve, preCount, postCount) ==
    IfSeq(preCount > 0, <<"pre">>) \o <<"connect", "prepare", "transfer">>
    \o IfSeq(postCount > 0, <<"post">>)
    \o IfSeq(strategy = "symlink", <<"swap">>)

\* The statements of the run in program order.
\* deployer.mjs: pre-commands (33-37), connect (40), target directory or
\*   in-place preparation (49-79), upload (81-86), preserve (88-110),
\*   ln -sfn and pruning (113-126), post-commands (129-133).
\* Deployer.cs: Connect (32-33), pre-commands (38-42), mkdir -p (81),
\*   UploadContent: diff, transfer (82, 97-125), preserve (86-89),
\*   ln -sfn (92), post-commands (55-59).
Steps(engine, strategy, preserve, preCount, postCount) ==
    IF engine = "Deploy"
    THEN IfSeq(preCount > 0, <<"pre">>)
         \o <<"connect", "prepare", "transfer">>
         \o IfSeq(strategy = "symlink" /\ preserve, <<"preserve">>)
         \o IfSeq(strategy = "symlink", <<"swap", "prune">>)
         \o IfSeq(postCount > 0, <<"post">>)
    ELSE <<"connect">>
         \o IfSeq(preCount > 0, <<"pre">>)
         \o IfSeq(strategy = "symlink", <<"prepare">>)
         \o <<"diff", "transfer">>
         \o IfSeq(strategy = "symlink" /\ preserve, <<"preserve">>)
         \o IfSeq(strategy = "symlink", <<"swap">>)
         \o IfSeq(postCount > 0, <<"post">>)

VARIABLES
    oEngine,     \* "Deploy" or "NetDeploy"
    oStrategy,   \* "symlink" or "inplace"
    oPreserve,   \* preserveFiles is not empty
    oPreCount,   \* number of pre-commands
    oPostCount,  \* number of post-commands
    oPc,         \* the step to run next, or "end"
    oCmd,        \* commands of the current pre/post step already run
    oLog,        \* steps started so far: [step, outcome]
    oResult      \* "running", "success" or "failed"

orderVars == <<oEngine, oStrategy, oPreserve, oPreCount, oPostCount, oPc, oCmd, oLog, oResult>>

oSteps == Steps(oEngine, oStrategy, oPreserve, oPreCount, oPostCount)

InitOrderRest ==
    /\ oPc = Head(oSteps)
    /\ oCmd = 0
    /\ oLog = <<>>
    /\ oResult = "running"

InitOrder ==
    /\ oEngine \in {"Deploy", "NetDeploy"}
    /\ oStrategy \in {"symlink", "inplace"}
    /\ oPreserve \in BOOLEAN
    /\ oPreCount \in 0..MaxCommands
    /\ oPostCount \in 0..MaxCommands
    /\ InitOrderRest

ParkedOrder ==
    /\ oEngine = "Deploy"
    /\ oStrategy = "inplace"
    /\ oPreserve = FALSE
    /\ oPreCount = 0
    /\ oPostCount = 0
    /\ InitOrderRest

oFixed == UNCHANGED <<oEngine, oStrategy, oPreserve, oPreCount, oPostCount>>

\* The step that follows `step` in program order; "end" after the last.
After(step) ==
    LET i == CHOOSE k \in 1..Len(oSteps) : oSteps[k] = step
    IN  IF i = Len(oSteps) THEN "end" ELSE oSteps[i + 1]

Logged(step, outcome) == Append(oLog, [step |-> step, outcome |-> outcome])

\* The step returned: the run goes on, or ends in success after the last.
Goes(step) ==
    /\ oPc' = After(step)
    /\ oResult' = IF After(step) = "end" THEN "success" ELSE "running"

\* The step threw: the finally block closes the session and the run ends.
Throws ==
    /\ oPc' = "end"
    /\ oResult' = "failed"

\* One remote call of the run; it returns or throws.
Call(step) ==
    /\ oPc = step
    /\ \E ok \in BOOLEAN :
          /\ oLog' = Logged(step, IF ok THEN "ok" ELSE "throw")
          /\ IF ok THEN Goes(step) ELSE Throws
    /\ UNCHANGED oCmd
    /\ oFixed

\* One command of a list.  runCommandsOverSSH throws at the first command
\* that fails; RunCommand asks the operator, who retries until the command
\* succeeds, skips it or quits.
Command(step, count) ==
    /\ oPc = step
    /\ \E outcome \in (IF oEngine = "Deploy" THEN {"ok", "throw"} ELSE {"ok", "skip", "throw"}) :
          /\ oLog' = Logged(step, outcome)
          /\ IF outcome = "throw"
             THEN Throws /\ UNCHANGED oCmd
             ELSE IF oCmd + 1 < count
             THEN oCmd' = oCmd + 1 /\ UNCHANGED <<oPc, oResult>>
             ELSE oCmd' = 0 /\ Goes(step)
    /\ oFixed

StepPre == Command("pre", oPreCount)

StepConnect == Call("connect")

\* deployer.mjs: exists/mkdir of the release directory, or the in-place
\* preparation.  Deployer.cs: RunCommand(mkdir -p targetDir).
StepPrepare ==
    IF oEngine = "Deploy" THEN Call("prepare") ELSE Command("prepare", 1)

\* GetChangedFilesAsync; UploadContent returns at once when nothing changed.
StepDiff ==
    /\ oPc = "diff"
    /\ \E outcome \in {"changed", "same", "throw"} :
          /\ oLog' = IF outcome = "same"
                     THEN Append(Logged("diff", "ok"), [step |-> "transfer", outcome |-> "nothing"])
                     ELSE Logged("diff", IF outcome = "changed" THEN "ok" ELSE "throw")
          /\ IF outcome = "throw" THEN Throws
             ELSE IF outcome = "changed" THEN Goes("diff")
             ELSE Goes("transfer")
    /\ UNCHANGED oCmd
    /\ oFixed

StepTransfer == Call("transfer")

\* deployer.mjs: exists(sourceBase) may throw, a failed copy is logged and
\* the loop goes on.  Deployer.cs: validation may throw, then RunCommand.
StepPreserve ==
    /\ oPc = "preserve"
    /\ \E outcome \in {"ok", "skip", "throw"} :
          /\ oLog' = Logged("preserve", outcome)
          /\ IF outcome = "throw" THEN Throws ELSE Goes("preserve")
    /\ UNCHANGED oCmd
    /\ oFixed

\* ln -sfn: runCommandsOverSSH / RunCommand.
StepSwap == Command("swap", 1)

StepPrune == Call("prune")

StepPost == Command("post", oPostCount)

\* ---------------------------------------------------------------------------
\* Relay transfer: RelayDeployment.UploadAsync (RelayDeployment.cs).  The
\* local archive exists when the relay connection is made.  A step ends
\* "ok", or fails with the connection alive ("fail": an exception, or a
\* non-zero exit status of a command), or fails because the connection to
\* the relay is lost ("lost").
\* ---------------------------------------------------------------------------
StepOutcomes == {"ok", "fail", "lost"}

VARIABLES
    yHasKey,     \* config.PrivateKeyPath is set
    yPc,         \* next step: "connect", "bundle", "key", "chmod", "scp",
                 \* "extract", "finally", "end"
    yConnected,  \* relayClient.IsConnected
    yOpened,     \* the relay connection was opened in this upload
    yRelayTar,   \* the archive, or a part of it, is on the relay host
    yRelayKey,   \* the copy of the target's private key is on the relay host
    yLocalTar,   \* the local temporary archive exists
    yLog,        \* steps of the try block issued so far: [step, outcome]
    yRm,         \* the rm -f of the finally block: "none", "skipped" or its outcome
    yThrown      \* an exception left the try block

relayVars == <<yHasKey, yPc, yConnected, yOpened, yRelayTar, yRelayKey, yLocalTar, yLog, yRm, yThrown>>

InitRelayRest ==
    /\ yPc = "connect"
    /\ yConnected = FALSE
    /\ yOpened = FALSE
    /\ yRelayTar = FALSE
    /\ yRelayKey = FALSE
    /\ yLocalTar = TRUE
    /\ yLog = <<>>
    /\ yRm = "none"
    /\ yThrown = FALSE

InitRelay ==
    /\ yHasKey \in BOOLEAN
    /\ InitRelayRest

ParkedRelay ==
    /\ yHasKey = FALSE
    /\ InitRelayRest

yLogged(step, outcome) == yLog' = Append(yLog, [step |-> step, outcome |-> outcome])

\* An exception leaves the try block: control goes to the finally block.
yThrow(outcome) ==
    /\ yPc' = "finally"
    /\ yThrown' = TRUE
    /\ yConnected' = (yConnected /\ outcome # "lost")

yGoes(next) ==
    /\ yPc' = next
    /\ UNCHANGED <<yThrown, yConnected>>

\* Line 83: relayClient.RunCommand(chmod 600 ...): the returned command and
\* its exit status are dropped; only a lost connection throws.
ChmodFatal(outcome) == outcome = "lost"

\* Lines 111-115: rm -f runs only if relayClient.IsConnected, and removes
\* the files only if it succeeds; its result is not looked at.
RelayCleaned(connected, outcome) == connected /\ outcome = "ok"

\* Lines 62-63: relayClient.Connect(); relaySftp.Connect().
RelayConnect ==
    /\ yPc = "connect"
    /\ \E ssh \in BOOLEAN, sftp \in BOOLEAN :
          /\ ~ssh => ~sftp
          /\ yConnected' = ssh
          /\ yOpened' = ssh
          /\ yPc' = IF sftp THEN "bundle" ELSE "finally"
          /\ yThrown' = ~sftp
    /\ UNCHANGED <<yHasKey, yRelayTar, yRelayKey, yLocalTar, yLog, yRm>>

\* Line 71: relaySftp.UploadFile(fs, /tmp/<tarName>); a failed upload may
\* leave a part of the file.
RelayUploadBundle ==
    /\ yPc = "bundle"
    /\ \E outcome \in StepOutcomes, partial \in BOOLEAN :
          /\ yLogged("bundle", outcome)
          /\ yRelayTar' = (outcome = "ok" \/ partial)
          /\ IF outcome = "ok"
             THEN yGoes(IF yHasKey THEN "key" ELSE "scp")
             ELSE yThrow(outcome)
    /\ UNCHANGED <<yHasKey, yOpened, yRelayKey, yLocalTar, yRm>>

\* Lines 75-80: relaySftp.UploadFile(ks, /tmp/<keyName>).
RelayUploadKey ==
    /\ yPc = "key"
    /\ \E outcome \in StepOutcomes, partial \in BOOLEAN :
          /\ yLogged("key", outcome)
          /\ yRelayKey' = (outcome = "ok" \/ partial)
          /\ IF outcome = "ok" THEN yGoes("chmod") ELSE yThrow(outcome)
    /\ UNCHANGED <<yHasKey, yOpened, yRelayTar, yLocalTar, yRm>>

\* Line 83: chmod 600 on the key.
RelayChmod ==
    /\ yPc = "chmod"
    /\ \E outcome \in StepOutcomes :
          /\ yLogged("chmod", outcome)
          /\ IF ChmodFatal(outcome) THEN yThrow(outcome) ELSE yGoes("scp")
    /\ UNCHANGED <<yHasKey, yOpened, yRelayTar, yRelayKey, yLocalTar, yRm>>

\* Lines 97-98: RunRelayCommand(scp ...), which throws on a non-zero status.
RelayScp ==
    /\ yPc = "scp"
    /\ \E outcome \in StepOutcomes :
          /\ yLogged("scp", outcome)
          /\ IF outcome = "ok" THEN yGoes("extract") ELSE yThrow(outcome)
    /\ UNCHANGED <<yHasKey, yOpened, yRelayTar, yRelayKey, yLocalTar, yRm>>

\* Lines 102-104: RunRelayCommand(ssh ... mkdir, tar, rm on the target).
RelayExtract ==
    /\ yPc = "extract"
    /\ \E outcome \in StepOutcomes :
          /\ yLogged("extract", outcome)
          /\ IF outcome = "ok" THEN yGoes("finally") ELSE yThrow(outcome)
    /\ UNCHANGED <<yHasKey, yOpened, yRelayTar, yRelayKey, yLocalTar, yRm>>

\* Lines 108-117: the finally block.  A lost connection makes RunCommand
\* throw out of the finally block, before File.Delete.
RelayFinally ==
    /\ yPc = "finally"
    /\ yPc' = "end"
    /\ \E outcome \in StepOutcomes :
          /\ ~yConnected => outcome = "ok"
          /\ yRm' = IF yConnected THEN outcome ELSE "skipped"
          /\ yRelayTar' = (yRelayTar /\ ~RelayCleaned(yConnected, outcome))
          /\ yRelayKey' = (yRelayKey /\ ~RelayCleaned(yConnected, outcome))
          /\ yLocalTar' = (yConnected /\ outcome = "lost")
          /\ yConnected' = (yConnected /\ outcome # "lost")
          /\ yThrown' = (yThrown \/ (yConnected /\ outcome = "lost"))
    /\ UNCHANGED <<yHasKey, yOpened, yLog>>

\* ---------------------------------------------------------------------------
\* Files of the tar batches: processBatch (sftp.mjs lines 49-111) and
\* TarDeployment.ProcessBatchAsync (TarDeployment.cs lines 64-161), one
\* worker taking the batches in order.  A file is [batch, kind] with kind
\* "tar" (the temporary archive) or "list" (the file list of the JavaScript
\* deployer); fRemote holds the batches whose archive, or a part of it, is
\* in the target directory.
\* ---------------------------------------------------------------------------
VARIABLES
    fEngine,      \* "Deploy" (sftp.mjs) or "NetDeploy" (TarDeployment.cs)
    fBatchCount,  \* batches.length
    fConcurrency, \* config.concurrency
    fBatch,       \* the batch being processed
    fPc,          \* "start", "compress", "upload", "delay", "extract", "end"
    fLocal,       \* local temporary files that exist
    fRemote,      \* batches with an archive in the target directory
    fSucceeded,   \* batches whose processing returned
    fFailed       \* batches whose processing threw

tarFilesVars == <<fEngine, fBatchCount, fConcurrency, fBatch, fPc, fLocal, fRemote, fSucceeded, fFailed>>

InitTarFilesRest ==
    /\ fBatch = 1
    /\ fPc = "start"
    /\ fLocal = {}
    /\ fRemote = {}
    /\ fSucceeded = {}
    /\ fFailed = {}

InitTarFiles ==
    /\ fEngine \in {"Deploy", "NetDeploy"}
    /\ fBatchCount \in 1..MaxBatches
    /\ fConcurrency \in 1..MaxConcurrency
    /\ InitTarFilesRest

ParkedTarFiles ==
    /\ fEngine = "none"
    /\ fBatchCount = 0
    /\ fConcurrency = 0
    /\ InitTarFilesRest

fFile(kind) == [batch |-> fBatch, kind |-> kind]

fFixed == <<fEngine, fBatchCount, fConcurrency>>

\* sftp.mjs lines 64-70: execFile('tar') is awaited before the try block
\* opens; TarDeployment.cs lines 80-112: the compression is inside it.
CompressGuarded(engine) == engine = "NetDeploy"

\* processBatch threw: Promise.all rejects (sftp.mjs line 125),
\* Parallel.ForEachAsync rethrows (TarDeployment.cs line 50).
fThrow ==
    /\ fFailed' = fFailed \cup {fBatch}
    /\ fPc' = "end"
    /\ UNCHANGED <<fBatch, fSucceeded>>

\* sftp.mjs lines 52-59: names, then fs.writeFileSync(listPath);
\* TarDeployment.cs lines 66-88: Path.GetTempFileName() creates the file,
\* then both clients connect inside the try block.
BatchStart ==
    /\ fPc = "start"
    /\ IF fEngine = "Deploy"
       THEN /\ fLocal' = fLocal \cup {fFile("list")}
            /\ fPc' = "compress"
            /\ UNCHANGED <<fBatch, fSucceeded, fFailed>>
       ELSE \E ok \in BOOLEAN :
               IF ok
               THEN /\ fLocal' = fLocal \cup {fFile("tar")}
                    /\ fPc' = "compress"
                    /\ UNCHANGED <<fBatch, fSucceeded, fFailed>>
               ELSE /\ fLocal' = fLocal \ {fFile("tar")}
                    /\ fThrow
    /\ UNCHANGED <<fFixed, fRemote>>

\* sftp.mjs lines 64-68; TarDeployment.cs lines 90-109.  A failed tar may
\* leave a part of the archive.
BatchCompress ==
    /\ fPc = "compress"
    /\ \E ok \in BOOLEAN, partial \in BOOLEAN :
          IF ok
          THEN /\ fLocal' = fLocal \cup {fFile("tar")}
               /\ fPc' = "upload"
               /\ UNCHANGED <<fBatch, fSucceeded, fFailed>>
          ELSE /\ fLocal' = IF CompressGuarded(fEngine)
                            THEN fLocal \ {fFile("tar"), fFile("list")}
                            ELSE fLocal \cup (IF partial THEN {fFile("tar")} ELSE {})
               /\ fThrow
    /\ UNCHANGED <<fFixed, fRemote>>

\* sftp.mjs lines 71-93: client.put in try, unlinkSync of both files in
\* finally; TarDeployment.cs lines 111-127 and 155-157: UploadFile, the
\* file is deleted in finally when the method is left.
BatchUpload ==
    /\ fPc = "upload"
    /\ \E ok \in BOOLEAN, partial \in BOOLEAN :
          IF ok
          THEN /\ fRemote' = fRemote \cup {fBatch}
               /\ fLocal' = IF fEngine = "Deploy"
                            THEN fLocal \ {fFile("tar"), fFile("list")}
                            ELSE fLocal
               /\ fPc' = IF fEngine = "Deploy" /\ fConcurrency > 1
                         THEN "delay" ELSE "extract"
               /\ UNCHANGED <<fBatch, fSucceeded, fFailed>>
          ELSE /\ fRemote' = IF partial THEN fRemote \cup {fBatch} ELSE fRemote
               /\ fLocal' = fLocal \ {fFile("tar"), fFile("list")}
               /\ fThrow
    /\ UNCHANGED fFixed

\* sftp.mjs lines 97-102: with concurrency > 1 the worker waits a random
\* time before it opens the SSH connection of the extract.
BatchDelay ==
    /\ fPc = "delay"
    /\ fPc' = "extract"
    /\ UNCHANGED <<fFixed, fBatch, fLocal, fRemote, fSucceeded, fFailed>>

\* sftp.mjs lines 104-110: tar -xzf, then rm, through runCommandsOverSSH,
\* which throws at the first command that fails; TarDeployment.cs lines
\* 133-144: tar -xzf ... && rm ..., the exit status is checked.  outcome
\* is "ok", "tar" (the extract fails) or "rm" (the removal fails).
BatchExtract ==
    /\ fPc = "extract"
    /\ \E outcome \in {"ok", "tar", "rm"} :
          /\ fLocal' = fLocal \ {fFile("tar"), fFile("list")}
          /\ IF outcome = "ok"
             THEN /\ fRemote' = fRemote \ {fBatch}
                  /\ fSucceeded' = fSucceeded \cup {fBatch}
                  /\ IF fBatch < fBatchCount
                     THEN fBatch' = fBatch + 1 /\ fPc' = "start"
                     ELSE fPc' = "end" /\ UNCHANGED fBatch
                  /\ UNCHANGED fFailed
             ELSE /\ UNCHANGED fRemote
                  /\ fThrow
    /\ UNCHANGED fFixed

\* ---------------------------------------------------------------------------
\* DirectSftp transfer: SftpDeployment.UploadAsync (SftpDeployment.cs).
\* A file of the change set is [dir, name], dir being its directory relative
\* to the local root ("" for a file of the root itself).
\* ---------------------------------------------------------------------------

\* Number of files of a change set explored.
MaxChange == 3

\* SftpDeployment.cs line 26: int batchSize = 50.
MkdirBatchSize == 50

ChangePool ==
    { [dir |-> "", name |-> "a"], [dir |-> "d", name |-> "b"],
      [dir |-> "d", name |-> "c"], [dir |-> "ee", name |-> "f"] }

\* The change sets: lists of distinct files.
ChangeLists ==
    { l \in UNION { [1..n -> ChangePool] : n \in 0..MaxChange } :
        \A i, j \in 1..Len(l) : i # j => l[i] # l[j] }

DirLen(d) == IF d = "" THEN 0 ELSE IF d = "d" THEN 1 ELSE 2

\* Lines 18-21: Select(directory), Where(not empty, not "."), Distinct().
RECURSIVE DistinctDirs(_, _)
DistinctDirs(files, acc) ==
    IF files = <<>> THEN acc
    ELSE LET d == Head(files).dir
         IN  DistinctDirs(Tail(files),
                IF d = "" \/ \E i \in 1..Len(acc) : acc[i] = d THEN acc
                ELSE Append(acc, d))

\* Line 22: OrderBy(d => d.Length), a stable sort.
RECURSIVE InsertByLength(_, _)
InsertByLength(sortedDirs, d) ==
    IF sortedDirs = <<>> THEN <<d>>
    ELSE IF DirLen(Head(sortedDirs)) <= DirLen(d)
         THEN <<Head(sortedDirs)>> \o InsertByLength(Tail(sortedDirs), d)
         ELSE <<d>> \o sortedDirs

RECURSIVE OrderByLength(_)
OrderByLength(ds) ==
    IF ds = <<>> THEN <<>>
    ELSE InsertByLength(OrderByLength(SubSeq(ds, 1, Len(ds) - 1)), ds[Len(ds)])

dirs(files) == OrderByLength(DistinctDirs(files, <<>>))

VARIABLES
    sFiles,       \* files: the change set
    sPc,          \* "mkdir", "put", "done", "failed"
    sI,           \* i of the mkdir loop
    sMkdirs,      \* mkdir commands run: [dirs, created, status]
    sRemoteDirs,  \* remote: directories of the change set that exist
    sPuts         \* files whose UploadFile was issued, in order

sftpVars == <<sFiles, sPc, sI, sMkdirs, sRemoteDirs, sPuts>>

InitSftpRest ==
    /\ sPc = "mkdir"
    /\ sI = 0
    /\ sMkdirs = <<>>
    /\ sRemoteDirs = {}
    /\ sPuts = <<>>

InitSftp ==
    /\ sFiles \in ChangeLists
    /\ InitSftpRest

ParkedSftp ==
    /\ sFiles = <<>>
    /\ InitSftpRest

sDirs == dirs(sFiles)

\* Line 29: dirs.Skip(i).Take(batchSize).
SkipTake(ds, i, n) ==
    SubSeq(ds, i + 1, IF i + n < Len(ds) THEN i + n ELSE Len(ds))

\* Lines 24-33: the loop is over once i reaches dirs.Count.
MkdirLoopOver == sI >= Len(sDirs)

\* Lines 27-32: one mkdir -p command for one chunk of directories.  The
\* command creates some of them; its status is 0 when it created all; or
\* the session is lost and Execute throws.
\* Line 31: ssh.CreateCommand(mkdirCmd).Execute() does not read ExitStatus.
MkdirChunk ==
    /\ sPc = "mkdir"
    /\ ~MkdirLoopOver
    /\ LET batch == SkipTake(sDirs, sI, MkdirBatchSize)
           names == {batch[k] : k \in 1..Len(batch)}
       IN  \E created \in SUBSET names, thrown \in BOOLEAN :
              /\ thrown => created # names
              /\ sMkdirs' = Append(sMkdirs,
                    [dirs |-> names, created |-> created,
                     status |-> IF thrown THEN "thrown"
                                ELSE IF created = names THEN "ok" ELSE "failed"])
              /\ sRemoteDirs' = sRemoteDirs \cup created
              /\ sPc' = IF thrown THEN "failed" ELSE "mkdir"
    /\ sI' = sI + MkdirBatchSize
    /\ UNCHANGED <<sFiles, sPuts>>

\* Lines 39-46: one UploadFile; it throws when the parent directory does
\* not exist or the transfer fails, and the loop ends with the last file.
PutFile ==
    /\ sPc \in {"mkdir", "put"}
    /\ sPc = "mkdir" => MkdirLoopOver
    /\ Len(sPuts) < Len(sFiles)
    /\ LET file == sFiles[Len(sPuts) + 1]
           parent == file.dir = "" \/ file.dir \in sRemoteDirs
       IN  /\ sPuts' = Append(sPuts, file)
           /\ \E ok \in BOOLEAN :
                 /\ ~parent => ~ok
                 /\ sPc' = IF ~ok THEN "failed"
                           ELSE IF Len(sPuts) + 1 = Len(sFiles) THEN "done"
                           ELSE "put"
    /\ UNCHANGED <<sFiles, sI, sMkdirs, sRemoteDirs>>

\* Lines 35-48: with no file the progress block ends at once.
NothingToPut ==
    /\ sPc = "mkdir"
    /\ MkdirLoopOver
    /\ sFiles = <<>>
    /\ sPc' = "done"
    /\ UNCHANGED <<sFiles, sI, sMkdirs, sRemoteDirs, sPuts>>

\* ---------------------------------------------------------------------------
\* Interactive failure mode: Deployer.RunCommand (Deployer.cs lines 145-173),
\* one call.  The operator is asked after every execution that ends with a
\* non-zero exit status.
\* ---------------------------------------------------------------------------

\* Executions of the command explored in one call.
MaxExecutions == 3

ExitStatuses == {0, 1, 127}

Choices == {"Retry", "Skip", "Quit"}

PromptCommands == {"mkdir", "ln"}

VARIABLES
    qCommand,  \* the command argument
    qPc,       \* "execute", "prompt", "returned", "thrown"
    qExecs,    \* executions so far: [command, status]
    qChoices,  \* choices of the operator so far
    qLost      \* Execute threw (the session was lost)

promptVars == <<qCommand, qPc, qExecs, qChoices, qLost>>

InitPromptRest ==
    /\ qPc = "execute"
    /\ qExecs = <<>>
    /\ qChoices = <<>>
    /\ qLost = FALSE

InitPrompt ==
    /\ qCommand \in PromptCommands
    /\ InitPromptRest

ParkedPrompt ==
    /\ qCommand = "none"
    /\ InitPromptRest

\* A check that lets status 1 pass.
ExitOkLoose(status) == status \in {0, 1}

\* Line 153: if (cmd.ExitStatus == 0) return;
ExitOk(status) == status = 0

\* Lines 149-153: client.CreateCommand(command), cmd.Execute(), and the
\* test of the exit status.
Execute ==
    /\ qPc = "execute"
    /\ \/ \E status \in ExitStatuses :
             /\ qExecs' = Append(qExecs, [command |-> qCommand, status |-> status])
             /\ qPc' = IF ExitOk(status) THEN "returned" ELSE "prompt"
             /\ UNCHANGED qLost
       \/ /\ qLost' = TRUE
          /\ qPc' = "thrown"
          /\ UNCHANGED qExecs
    /\ UNCHANGED <<qCommand, qChoices>>

\* Lines 159-171: the prompt and the three choices.
Prompt ==
    /\ qPc = "prompt"
    /\ \E choice \in Choices :
          /\ choice = "Retry" => Len(qExecs) < MaxExecutions
          /\ qChoices' = Append(qChoices, choice)
          /\ qPc' = IF choice = "Skip" THEN "returned"
                    ELSE IF choice = "Quit" THEN "thrown"
                    ELSE "execute"
    /\ UNCHANGED <<qCommand, qExecs, qLost>>

\* ---------------------------------------------------------------------------
\* Delays of withRetry (retry.mjs lines 1-27).  A delay is a fraction
\* [num, den] of milliseconds in lowest terms: 1.5^k is 3^k / 2^k.
\* ---------------------------------------------------------------------------

\* retry.mjs line 2: const BASE_DELAY = 2000
BASE_DELAY == 2000

\* options.delay: not given (<<>>), or a number of milliseconds.
DelayOptions == {<<>>, <<0>>, <<1000>>}

RECURSIVE Pow(_, _)
Pow(b, k) == IF k = 0 THEN 1 ELSE b * Pow(b, k - 1)

\* retry.mjs line 6: options.delay ?? BASE_DELAY
initialDelayOf(option) == IF option = <<>> THEN BASE_DELAY ELSE option[1]

RECURSIVE Gcd(_, _)
Gcd(a, b) == IF b = 0 THEN a ELSE Gcd(b, a % b)

\* The number num / den in lowest terms: every value of the computation is
\* a double that holds it exactly.
Reduced(num, den) == [num |-> num \div Gcd(num, den), den |-> den \div Gcd(num, den)]

\* A delay whose exponent is the attempt itself.
delayOfAttempt(initialDelay, attempt) ==
    Reduced(initialDelay * Pow(3, attempt), Pow(2, attempt))

\* retry.mjs line 22: initialDelay * Math.pow(1.5, attempt - 1)
delayOf(initialDelay, attempt) ==
    Reduced(initialDelay * Pow(3, attempt - 1), Pow(2, attempt - 1))

VARIABLES
    wDelayOpt,  \* options.delay
    wRetries,   \* options.retries ?? DEFAULT_RETRIES
    wPc,        \* "call", "wait", "returned", "thrown"
    wAttempt,   \* attempt
    wCalls,     \* calls of fn so far
    wWaits      \* delays waited so far, in order

backoffVars == <<wDelayOpt, wRetries, wPc, wAttempt, wCalls, wWaits>>

InitBackoffRest ==
    /\ wPc = "call"
    /\ wAttempt = 0
    /\ wCalls = 0
    /\ wWaits = <<>>

InitBackoff ==
    /\ wDelayOpt \in DelayOptions
    /\ wRetries \in (0..MaxRetriesOpt) \cup {DEFAULT_RETRIES}
    /\ InitBackoffRest

ParkedBackoff ==
    /\ wDelayOpt = <<>>
    /\ wRetries = 0
    /\ InitBackoffRest

\* Lines 10-15: fn() is called; it returns, or it throws and the catch
\* block counts the attempt and gives up when attempt > retries.
CallFn ==
    /\ wPc = "call"
    /\ wCalls' = wCalls + 1
    /\ \E ok \in BOOLEAN :
          IF ok
          THEN wPc' = "returned" /\ UNCHANGED wAttempt
          ELSE /\ wAttempt' = wAttempt + 1
               /\ wPc' = IF GiveUp(wAttempt + 1, wRetries) THEN "thrown" ELSE "wait"
    /\ UNCHANGED <<wDelayOpt, wRetries, wWaits>>

\* Lines 22-24: the delay is computed and waited, then the loop goes round.
WaitDelay ==
    /\ wPc = "wait"
    /\ wWaits' = Append(wWaits, delayOf(initialDelayOf(wDelayOpt), wAttempt))
    /\ wPc' = "call"
    /\ UNCHANGED <<wDelayOpt, wRetries, wAttempt, wCalls>>

\* ---------------------------------------------------------------------------
\* Sessions of a run: Deployer.run with RobustSftpClient (deployer.mjs lines
\* 39-140, sftp-client.mjs lines 11-81) and Deployer.RunAsync (Deployer.cs
\* lines 18-68).  The underlying clients are numbered in the order in which
\* they are created; eOpen holds the clients whose session is open.
\* ---------------------------------------------------------------------------

\* Replacements of the underlying client explored in one run.
MaxReconnects == 2

\* The steps between the connection and the way out.
RunSteps == <<"prepare", "transfer", "preserve", "finalize", "post">>

VARIABLES
    eEngine,     \* "Deploy" or "NetDeploy"
    ePc,         \* "connect", a step of RunSteps, "finally", "ending", "out"
    eClient,     \* number of the current underlying client
    eOpen,       \* clients with an open session
    eConfig,     \* RobustSftpClient.config is set
    eConnected,  \* the run has connected its session
    eThrown,     \* a step threw
    eEnding,     \* clients whose end() the finally block awaits
    eWorker      \* a worker of uploadTar is still running after the throw

sessionVars == <<eEngine, ePc, eClient, eOpen, eConfig, eConnected, eThrown, eEnding, eWorker>>

InitSessionRest ==
    /\ ePc = "connect"
    /\ eClient = 0
    /\ eOpen = {}
    /\ eConfig = FALSE
    /\ eConnected = FALSE
    /\ eThrown = FALSE
    /\ eEnding = {}
    /\ eWorker = FALSE

InitSession ==
    /\ eEngine \in {"Deploy", "NetDeploy"}
    /\ InitSessionRest

ParkedSession ==
    /\ eEngine = "none"
    /\ InitSessionRest

StepAfter(step) ==
    LET i == CHOOSE k \in 1..Len(RunSteps) : RunSteps[k] = step
    IN  IF i = Len(RunSteps) THEN "finally" ELSE RunSteps[i + 1]

\* sftp-client.mjs lines 27, 37, 53: await this.client.end() inside
\* try/catch: when it throws, the error is dropped and the session is left
\* as it is.
ClosedByEnd(open, client, endOk) == IF endOk THEN open \ {client} ELSE open

\* deployer.mjs line 40, outside the try block (a failure leaves run()
\* at once; RobustSftpClient.connect has ended and replaced the client);
\* Deployer.cs lines 30-35, inside it.
RunConnect ==
    /\ ePc = "connect"
    /\ eConfig' = (eEngine = "Deploy")
    /\ \E ok \in BOOLEAN :
          IF ok
          THEN /\ eOpen' = eOpen \cup {eClient}
               /\ eConnected' = TRUE
               /\ ePc' = RunSteps[1]
               /\ UNCHANGED <<eClient, eThrown>>
          ELSE /\ eThrown' = TRUE
               /\ ePc' = IF eEngine = "Deploy" THEN "out" ELSE "finally"
               /\ UNCHANGED <<eClient, eOpen, eConnected>>
    /\ UNCHANGED <<eEngine, eEnding, eWorker>>

\* One step inside the try block returns or throws.  When the transfer
\* of the JavaScript deployer throws out of Promise.all (sftp.mjs line
\* 125), another worker may still be running.
RunStep ==
    /\ ePc \in {RunSteps[k] : k \in 1..Len(RunSteps)}
    /\ \E ok \in BOOLEAN, running \in BOOLEAN :
          IF ok
          THEN /\ ~running
               /\ ePc' = StepAfter(ePc)
               /\ UNCHANGED <<eThrown, eWorker>>
          ELSE /\ running => (eEngine = "Deploy" /\ ePc = "transfer")
               /\ ePc' = "finally"
               /\ eThrown' = TRUE
               /\ eWorker' = running
    /\ UNCHANGED <<eEngine, eClient, eOpen, eConfig, eConnected, eEnding>>

\* sftp-client.mjs lines 46-76: an operation of the step loses the
\* connection; the client is ended inside try/catch and replaced, and the
\* new client connects with the stored configuration; the error is thrown
\* to withRetry, which calls the operation again.
Reconnect ==
    /\ eEngine = "Deploy"
    /\ ePc \in {RunSteps[k] : k \in 1..Len(RunSteps)}
    /\ eClient < MaxReconnects
    /\ \E gone \in BOOLEAN, endOk \in BOOLEAN, connOk \in BOOLEAN :
          LET before == IF gone THEN eOpen \ {eClient} ELSE eOpen
          IN  eOpen' = ClosedByEnd(before, eClient, endOk)
                          \cup (IF eConfig /\ connOk THEN {eClient + 1} ELSE {})
    /\ eClient' = eClient + 1
    /\ UNCHANGED <<eEngine, ePc, eConfig, eConnected, eThrown, eEnding, eWorker>>

\* deployer.mjs line 138 with sftp-client.mjs line 37: the finally block
\* calls end() of the client that is current now and awaits it;
\* Deployer.cs lines 63-67: Disconnect of both clients.
EndCalled ==
    /\ ePc = "finally"
    /\ ePc' = "ending"
    /\ eEnding' = {eClient}
    /\ UNCHANGED <<eEngine, eClient, eOpen, eConfig, eConnected, eThrown, eWorker>>

\* While end() is awaited, the put of the worker that is still running
\* fails with a connection error: _exec ends and replaces the client and,
\* this.config being still set, connects the new one (sftp-client.mjs
\* lines 46-76).
LateReconnect ==
    /\ ePc = "ending"
    /\ eWorker
    /\ eClient < MaxReconnects
    /\ \E endOk \in BOOLEAN, connOk \in BOOLEAN :
          eOpen' = ClosedByEnd(eOpen, eClient, endOk)
                      \cup (IF eConfig /\ connOk THEN {eClient + 1} ELSE {})
    /\ eClient' = eClient + 1
    /\ eWorker' = FALSE
    /\ UNCHANGED <<eEngine, ePc, eConfig, eConnected, eThrown, eEnding>>

\* sftp-client.mjs lines 37-39: end() settles; this.config = null unless
\* it threw.  Deployer.cs lines 22-23: the using declarations dispose both
\* clients whatever Disconnect did.
EndSettled ==
    /\ ePc = "ending"
    /\ ePc' = "out"
    /\ \E endOk \in BOOLEAN :
          IF eEngine = "Deploy"
          THEN /\ eOpen' = IF endOk THEN eOpen \ eEnding ELSE eOpen
               /\ eConfig' = (eConfig /\ ~endOk)
          ELSE /\ eOpen' = {}
               /\ UNCHANGED eConfig
    /\ UNCHANGED <<eEngine, eClient, eConnected, eThrown, eEnding, eWorker>>

\* ---------------------------------------------------------------------------
\* Listeners of RobustSftpClient (sftp-client.mjs lines 4-99).  The
\* underlying client is an event emitter: on() appends a listener,
\* removeListener() removes the most recently added instance of it,
\* removeAllListeners() removes all; a client made by the constructor has
\* none.  A registration is [event, listener].
\* ---------------------------------------------------------------------------

\* Calls of on() and removeListener() explored.
MaxListenerOps == 4

Registrations == [event : {"upload", "error"}, listener : {"f", "g"}]

VARIABLES
    lListeners,  \* this.listeners
    lAttached,   \* listeners of the current underlying client, in order
    lLive,       \* registration -> calls of on() not undone by removeListener()
    lOps,        \* calls of on() and removeListener() so far
    lReplaced,   \* replacements of the underlying client so far
    lConnected   \* the current underlying client is connected

listenersVars == <<lListeners, lAttached, lLive, lOps, lReplaced, lConnected>>

InitListeners ==
    /\ lListeners = <<>>
    /\ lAttached = <<>>
    /\ lLive = [r \in Registrations |-> 0]
    /\ lOps = 0
    /\ lReplaced = 0
    /\ lConnected = FALSE

ParkedListeners == InitListeners

\* Array.prototype.filter with the predicate of line 89.
RECURSIVE FilterOut(_, _)
FilterOut(list, r) ==
    IF list = <<>> THEN <<>>
    ELSE (IF Head(list).event # r.event \/ Head(list).listener # r.listener
          THEN <<Head(list)>> ELSE <<>>) \o FilterOut(Tail(list), r)

\* EventEmitter.removeListener: the most recently added instance goes.
emitterRemove(attached, r) ==
    LET at == {k \in 1..Len(attached) : attached[k] = r}
    IN  IF at = {} THEN attached
        ELSE LET last == CHOOSE k \in at : \A j \in at : j <= k
             IN  SubSeq(attached, 1, last - 1) \o SubSeq(attached, last + 1, Len(attached))

\* Lines 93-99: removeAllListeners() on the current client, then on() for
\* every entry of this.listeners.
reattachListeners(listeners) == listeners

\* Lines 83-86.
On ==
    /\ lOps < MaxListenerOps
    /\ lOps' = lOps + 1
    /\ \E r \in Registrations :
          /\ lListeners' = Append(lListeners, r)
          /\ lAttached' = Append(lAttached, r)
          /\ lLive' = [lLive EXCEPT ![r] = @ + 1]
    /\ UNCHANGED <<lReplaced, lConnected>>

\* Lines 88-91.
RemoveListener ==
    /\ lOps < MaxListenerOps
    /\ lOps' = lOps + 1
    /\ \E r \in Registrations :
          /\ lListeners' = FilterOut(lListeners, r)
          /\ lAttached' = emitterRemove(lAttached, r)
          /\ lLive' = [lLive EXCEPT ![r] = IF @ > 0 THEN @ - 1 ELSE 0]
    /\ UNCHANGED <<lReplaced, lConnected>>

\* Lines 11-33: connect(config); the client connects, or the attempt
\* fails, the client is replaced and the listeners are attached to the
\* new one (lines 24-30).
ConnectClient ==
    /\ ~lConnected
    /\ \/ /\ lConnected' = TRUE
          /\ UNCHANGED <<lAttached, lReplaced>>
       \/ /\ lReplaced < MaxReconnects
          /\ lReplaced' = lReplaced + 1
          /\ lAttached' = reattachListeners(lListeners)
          /\ UNCHANGED lConnected
    /\ UNCHANGED <<lListeners, lLive, lOps>>

\* Lines 49-73: an operation loses the connection; the client is replaced,
\* the listeners are attached to the new one, and the reconnection
\* succeeds or fails.
ExecReconnect ==
    /\ lConnected
    /\ lReplaced < MaxReconnects
    /\ lReplaced' = lReplaced + 1
    /\ lAttached' = reattachListeners(lListeners)
    /\ lConnected' \in BOOLEAN
    /\ UNCHANGED <<lListeners, lLive, lOps>>

\* ---------------------------------------------------------------------------
\* runCommandsOverSSH (part_012 lines 12-38): the commands of the list are
\* numbered 1..kCount; each is run by execOne under withRetry with the
\* default number of retries.
\* ---------------------------------------------------------------------------

\* options.stopOnError: not given (<<>>), or a boolean.
StopOptions == {<<>>, <<TRUE>>, <<FALSE>>}

VARIABLES
    kCount,     \* commands.length
    kStopOpt,   \* options.stopOnError
    kPc,        \* "start", "loop", "retry", "returned", "thrown"
    kCmd,       \* the command of the current pass of the loop
    kAttempt,   \* attempt of withRetry for that command
    kRunning,   \* commands with an execution in flight
    kOrder,     \* commands in the order of their first execution
    kFailed     \* commands that failed for good (withRetry threw)

commandsVars == <<kCount, kStopOpt, kPc, kCmd, kAttempt, kRunning, kOrder, kFailed>>

InitCommandsRest ==
    /\ kPc = "start"
    /\ kCmd = 0
    /\ kAttempt = 0
    /\ kRunning = {}
    /\ kOrder = <<>>
    /\ kFailed = {}

InitCommands ==
    /\ kCount \in 0..MaxCommands
    /\ kStopOpt \in StopOptions
    /\ InitCommandsRest

ParkedCommands ==
    /\ kCount = 0
    /\ kStopOpt = <<>>
    /\ InitCommandsRest

kFixed == <<kCount, kStopOpt>>

\* A default of false.
stopOnErrorLoose(option) == IF option = <<>> THEN FALSE ELSE option[1]

\* Line 13: const { stopOnError = true } = options
stopOnError(option) == IF option = <<>> THEN TRUE ELSE option[1]

\* The for loop goes to the command after kCmd, or the call returns.
kAdvance ==
    /\ kAttempt' = 0
    /\ IF kCmd < kCount
       THEN kCmd' = kCmd + 1 /\ kPc' = "loop"
       ELSE kPc' = "returned" /\ UNCHANGED kCmd

\* Line 14: nothing to do for an empty list; else the loop starts.
EnterLoop ==
    /\ kPc = "start"
    /\ kAdvance
    /\ UNCHANGED <<kFixed, kRunning, kOrder, kFailed>>

\* Lines 21-22 and 30-73: withRetry calls execOne(cmd), which connects and
\* runs the command.
ExecStart ==
    /\ kPc \in {"loop", "retry"}
    /\ kRunning = {}
    /\ kRunning' = kRunning \cup {kCmd}
    /\ kOrder' = IF \E i \in 1..Len(kOrder) : kOrder[i] = kCmd THEN kOrder
                 ELSE Append(kOrder, kCmd)
    /\ kPc' = "loop"
    /\ UNCHANGED <<kFixed, kCmd, kAttempt, kFailed>>

\* The execution settles.  Resolved: the loop goes on.  Rejected: withRetry
\* counts the attempt and calls execOne again after its delay, or gives up
\* and throws (retry.mjs lines 13-15); the catch block of lines 24-27
\* rethrows when stopOnError is set and goes on to the next command when
\* it is not.
ExecSettle ==
    /\ kPc = "loop"
    /\ kRunning = {kCmd}
    /\ kRunning' = {}
    /\ \E ok \in BOOLEAN :
          IF ok
          THEN kAdvance /\ UNCHANGED kFailed
          ELSE IF ~GiveUp(kAttempt + 1, DEFAULT_RETRIES)
               THEN /\ kAttempt' = kAttempt + 1
                    /\ kPc' = "retry"
                    /\ UNCHANGED <<kCmd, kFailed>>
               ELSE /\ kFailed' = kFailed \cup {kCmd}
                    /\ IF stopOnError(kStopOpt)
                       THEN kPc' = "thrown" /\ UNCHANGED <<kCmd, kAttempt>>
                       ELSE kAdvance
    /\ UNCHANGED <<kFixed, kOrder>>

\* ---------------------------------------------------------------------------
\* Source watcher: startSourceWatcher (fs.mjs lines 194-268) with the
\* default options (no shouldIgnoreEvent).  One action is one turn of the
\* event loop: a file event, the debounce timer firing, or the end of the
\* last task of a plan, each with everything that runs before the next
\* await that waits for the outside.  buildTaskPlan returns tasks for every
\* non-empty set of change types, and a task always ends.
\* ---------------------------------------------------------------------------
ChangeTypes == {"scss", "ts", "astro"}

VARIABLES
    vPending,  \* pendingTypes
    vTimer,    \* debounceTimer is armed
    vRunning,  \* running
    vRerun,    \* rerunRequested
    vCurrent,  \* currentRunningTypes
    vRuns,     \* executions of runTasks in progress: [phase, types]
    vOwed      \* types of events that arrived during a run and that no run
               \* started since has included

watchVars == <<vPending, vTimer, vRunning, vRerun, vCurrent, vRuns, vOwed>>

InitWatch ==
    /\ vPending = {}
    /\ vTimer = FALSE
    /\ vRunning = FALSE
    /\ vRerun = FALSE
    /\ vCurrent = {}
    /\ vRuns = <<>>
    /\ vOwed = {}

ParkedWatch == InitWatch

\* Lines 227-228: no task, no run.
PlanIsEmpty(changeTypes) == changeTypes = {}

\* A timer callback that never finds the watcher busy.
BusyNever(running) == FALSE

\* Line 210: if (running)
Busy(running) == running

\* Lines 226-231: runTasks(changeTypes) up to its first await.
RunBegun(changeTypes, phase, inProgress) ==
    IF PlanIsEmpty(changeTypes)
    THEN [runs |-> inProgress, began |-> FALSE]
    ELSE [runs |-> Append(inProgress, [phase |-> phase, types |-> changeTypes]),
          began |-> TRUE]

\* Lines 258-268 and 201-209: a classified file event.
FileEvent ==
    /\ \E type \in ChangeTypes :
          /\ vPending' = vPending \cup {type}
          /\ vOwed' = IF vRunning THEN vOwed \cup {type} ELSE vOwed
    /\ vTimer' = TRUE
    /\ UNCHANGED <<vRunning, vRerun, vCurrent, vRuns>>

\* Lines 209-216: the debounce timer fires.  With a run in progress it
\* only sets rerunRequested.  Else it takes the pending types and calls
\* runTasks; when there is no task, runTasks returns at once and lines
\* 217-222 follow in the same turn, with nothing pending.
TimerFires ==
    /\ vTimer
    /\ vTimer' = FALSE
    /\ IF Busy(vRunning)
       THEN /\ vRerun' = TRUE
            /\ UNCHANGED <<vPending, vRunning, vCurrent, vRuns, vOwed>>
       ELSE LET s == RunBegun(vPending, "first", vRuns)
            IN  /\ vPending' = {}
                /\ vRuns' = s.runs
                /\ vRunning' = (vRunning \/ s.began)
                /\ vCurrent' = IF s.began THEN vPending ELSE vCurrent
                /\ vOwed' = vOwed \ (IF s.began THEN vPending ELSE {})
                /\ vRerun' = (vRerun /\ s.began)

\* Lines 243-256: the last task of a plan ends and runTasks returns; the
\* callback that awaited it goes on in the same turn (lines 217-222): a
\* first run with rerunRequested set starts a second run for whatever is
\* pending; nothing follows a second run.
RunEnds ==
    /\ \E i \in 1..Len(vRuns) :
          LET run == vRuns[i]
              rest == SubSeq(vRuns, 1, i - 1) \o SubSeq(vRuns, i + 1, Len(vRuns))
          IN  IF run.phase = "first" /\ vRerun
              THEN LET s == RunBegun(vPending, "second", rest)
                   IN  /\ vRerun' = FALSE
                       /\ vPending' = {}
                       /\ vRuns' = s.runs
                       /\ vRunning' = s.began
                       /\ vCurrent' = IF s.began THEN vPending ELSE {}
                       /\ vOwed' = vOwed \ (IF s.began THEN vPending ELSE {})
              ELSE /\ vRuns' = rest
                   /\ vRunning' = FALSE
                   /\ vCurrent' = {}
                   /\ UNCHANGED <<vRerun, vPending, vOwed>>
    /\ UNCHANGED vTimer

ParkedDeploy ==
    /\ now = StartClock
    /\ releasesRoot = OtherEntries
    /\ link = [kind |-> "absent", target |-> NoRelease]
    /\ localTree = EmptyDir
    /\ keepReleases = 1
    /\ preserveFiles = <<>>
    /\ pc = "idle"
    /\ targetUploadDir = NoRelease
    /\ sessionOpen = FALSE
    /\ runs = 0
    /\ okRuns = 0
    /\ result = "none"
    /\ failedAt = "none"
    /\ lnIssued = FALSE
    /\ activeAtStart = NoRelease
    /\ filesAtStart = EmptyDir
    /\ listed = << >>
    /\ removed = {}
    /\ calls = {}

vars == <<deployVars, diffVars, retryVars, batchVars, preserveVars, configVars, tarVars, inplaceVars, orderVars, relayVars, tarFilesVars, sftpVars, promptVars, backoffVars, sessionVars, listenersVars, commandsVars, watchVars>>

\* The variables a specification leaves to the other parts.
notDeploy == <<diffVars, retryVars, batchVars, preserveVars, configVars, tarVars, inplaceVars, orderVars, relayVars, tarFilesVars, sftpVars, promptVars, backoffVars, sessionVars, listenersVars, commandsVars, watchVars>>
notDiff == <<deployVars, retryVars, batchVars, preserveVars, configVars, tarVars, inplaceVars, orderVars, relayVars, tarFilesVars, sftpVars, promptVars, backoffVars, sessionVars, listenersVars, commandsVars, watchVars>>
notRetry == <<deployVars, diffVars, batchVars, preserveVars, configVars, tarVars, inplaceVars, orderVars, relayVars, tarFilesVars, sftpVars, promptVars, backoffVars, sessionVars, listenersVars, commandsVars, watchVars>>
notBatch == <<deployVars, diffVars, retryVars, preserveVars, configVars, tarVars, inplaceVars, orderVars, relayVars, tarFilesVars, sftpVars, promptVars, backoffVars, sessionVars, listenersVars, commandsVars, watchVars>>
notPreserve == <<deployVars, diffVars, retryVars, batchVars, configVars, tarVars, inplaceVars, orderVars, relayVars, tarFilesVars, sftpVars, promptVars, backoffVars, sessionVars, listenersVars, commandsVars, watchVars>>
notConfig == <<deployVars, diffVars, retryVars, batchVars, preserveVars, tarVars, inplaceVars, orderVars, relayVars, tarFilesVars, sftpVars, promptVars, backoffVars, sessionVars, listenersVars, commandsVars, watchVars>>
notTar == <<deployVars, diffVars, retryVars, batchVars, preserveVars, configVars, inplaceVars, orderVars, relayVars, tarFilesVars, sftpVars, promptVars, backoffVars, sessionVars, listenersVars, commandsVars, watchVars>>
notInplace == <<deployVars, diffVars, retryVars, batchVars, preserveVars, configVars, tarVars, orderVars, relayVars, tarFilesVars, sftpVars, promptVars, backoffVars, sessionVars, listenersVars, commandsVars, watchVars>>
notOrder == <<deployVars, diffVars, retryVars, batchVars, preserveVars, configVars, tarVars, inplaceVars, relayVars, tarFilesVars, sftpVars, promptVars, backoffVars, sessionVars, listenersVars, commandsVars, watchVars>>
notRelay == <<deployVars, diffVars, retryVars, batchVars, preserveVars, configVars, tarVars, inplaceVars, orderVars, tarFilesVars, sftpVars, promptVars, backoffVars, sessionVars, listenersVars, commandsVars, watchVars>>
notTarFiles == <<deployVars, diffVars, retryVars, batchVars, preserveVars, configVars, tarVars, inplaceVars, orderVars, relayVars, sftpVars, promptVars, backoffVars, sessionVars, listenersVars, commandsVars, watchVars>>
notSftp == <<deployVars, diffVars, retryVars, batchVars, preserveVars, configVars, tarVars, inplaceVars, orderVars, relayVars, tarFilesVars, promptVars, backoffVars, sessionVars, listenersVars, commandsVars, watchVars>>
notPrompt == <<deployVars, diffVars, retryVars, batchVars, preserveVars, configVars, tarVars, inplaceVars, orderVars, relayVars, tarFilesVars, sftpVars, backoffVars, sessionVars, listenersVars, commandsVars, watchVars>>
notBackoff == <<deployVars, diffVars, retryVars, batchVars, preserveVars, configVars, tarVars, inplaceVars, orderVars, relayVars, tarFilesVars, sftpVars, promptVars, sessionVars, listenersVars, commandsVars, watchVars>>
notSession == <<deployVars, diffVars, retryVars, batchVars, preserveVars, configVars, tarVars, inplaceVars, orderVars, relayVars, tarFilesVars, sftpVars, promptVars, backoffVars, listenersVars, commandsVars, watchVars>>
notListeners == <<deployVars, diffVars, retryVars, batchVars, preserveVars, configVars, tarVars, inplaceVars, orderVars, relayVars, tarFilesVars, sftpVars, promptVars, backoffVars, sessionVars, commandsVars, watchVars>>
notCommands == <<deployVars, diffVars, retryVars, batchVars, preserveVars, configVars, tarVars, inplaceVars, orderVars, relayVars, tarFilesVars, sftpVars, promptVars, backoffVars, sessionVars, listenersVars, watchVars>>
notWatch == <<deployVars, diffVars, retryVars, batchVars, preserveVars, configVars, tarVars, inplaceVars, orderVars, relayVars, tarFilesVars, sftpVars, promptVars, backoffVars, sessionVars, listenersVars, commandsVars>>

\* Release runs of the deployer.
Init == InitDeploy /\ ParkedDiff /\ ParkedRetry /\ ParkedBatch /\ ParkedPreserve /\ ParkedConfig /\ ParkedTar /\ ParkedInplace /\ ParkedOrder /\ ParkedRelay /\ ParkedTarFiles /\ ParkedSftp /\ ParkedPrompt /\ ParkedBackoff /\ ParkedSession /\ ParkedListeners /\ ParkedCommands /\ ParkedWatch

Next ==
    \/ Tick /\ UNCHANGED notDeploy
    \/ AppWritesData /\ UNCHANGED notDeploy
    \/ StartRun /\ UNCHANGED notDeploy
    \/ Connect /\ UNCHANGED notDeploy
    \/ Prepare /\ UNCHANGED notDeploy
    \/ Transfer /\ UNCHANGED notDeploy
    \/ Preserve /\ UNCHANGED notDeploy
    \/ Swap /\ UNCHANGED notDeploy
    \/ Prune /\ UNCHANGED notDeploy
    \/ Post /\ UNCHANGED notDeploy

Spec == Init /\ [][Next]_vars

\* Runs of the diff engine and of the in-place upload.
InitD == ParkedDeploy /\ InitDiff /\ ParkedRetry /\ ParkedBatch /\ ParkedPreserve /\ ParkedConfig /\ ParkedTar /\ ParkedInplace /\ ParkedOrder /\ ParkedRelay /\ ParkedTarFiles /\ ParkedSftp /\ ParkedPrompt /\ ParkedBackoff /\ ParkedSession /\ ParkedListeners /\ ParkedCommands /\ ParkedWatch

NextD ==
    \/ GetChangedFilesAsync /\ UNCHANGED notDiff
    \/ UploadContent /\ UNCHANGED notDiff
    \/ UploadSftp /\ UNCHANGED notDiff
    \/ EditLocal /\ UNCHANGED notDiff

SpecDiff == InitD /\ [][NextD]_vars

\* Calls of the retry wrapper.
InitR == ParkedDeploy /\ ParkedDiff /\ InitRetry /\ ParkedBatch /\ ParkedPreserve /\ ParkedConfig /\ ParkedTar /\ ParkedInplace /\ ParkedOrder /\ ParkedRelay /\ ParkedTarFiles /\ ParkedSftp /\ ParkedPrompt /\ ParkedBackoff /\ ParkedSession /\ ParkedListeners /\ ParkedCommands /\ ParkedWatch

NextR ==
    \/ Begin /\ UNCHANGED notRetry
    \/ InvokeExec /\ UNCHANGED notRetry
    \/ InvokeConnect /\ UNCHANGED notRetry
    \/ Sleep /\ UNCHANGED notRetry
    \/ Resume /\ UNCHANGED notRetry
    \/ End /\ UNCHANGED notRetry

SpecRetry == InitR /\ [][NextR]_vars

\* Calls of the batch packers.
InitB == ParkedDeploy /\ ParkedDiff /\ ParkedRetry /\ InitBatch /\ ParkedPreserve /\ ParkedConfig /\ ParkedTar /\ ParkedInplace /\ ParkedOrder /\ ParkedRelay /\ ParkedTarFiles /\ ParkedSftp /\ ParkedPrompt /\ ParkedBackoff /\ ParkedSession /\ ParkedListeners /\ ParkedCommands /\ ParkedWatch

NextB ==
    \/ UploadTarBatches /\ UNCHANGED notBatch
    \/ UploadAsyncBatches /\ UNCHANGED notBatch

SpecBatch == InitB /\ [][NextB]_vars

\* The preserve step and the remote commands of both deployers.
InitP == ParkedDeploy /\ ParkedDiff /\ ParkedRetry /\ ParkedBatch /\ InitPreserve /\ ParkedConfig /\ ParkedTar /\ ParkedInplace /\ ParkedOrder /\ ParkedRelay /\ ParkedTarFiles /\ ParkedSftp /\ ParkedPrompt /\ ParkedBackoff /\ ParkedSession /\ ParkedListeners /\ ParkedCommands /\ ParkedWatch

NextP ==
    \/ CsMkdir /\ UNCHANGED notPreserve
    \/ CsUpload /\ UNCHANGED notPreserve
    \/ CsPreserve /\ UNCHANGED notPreserve
    \/ CsLink /\ UNCHANGED notPreserve
    \/ JsPrepare /\ UNCHANGED notPreserve
    \/ JsTransfer /\ UNCHANGED notPreserve
    \/ JsPreserve /\ UNCHANGED notPreserve
    \/ JsSwap /\ UNCHANGED notPreserve

SpecPreserve == InitP /\ [][NextP]_vars

\* Invocations of the three entry points.
InitC ==
    /\ ParkedDeploy /\ ParkedDiff /\ ParkedRetry /\ ParkedBatch /\ ParkedPreserve
    /\ InitConfig /\ ParkedTar /\ ParkedInplace /\ ParkedOrder /\ ParkedRelay /\ ParkedTarFiles /\ ParkedSftp /\ ParkedPrompt /\ ParkedBackoff /\ ParkedSession /\ ParkedListeners /\ ParkedCommands /\ ParkedWatch

NextC ==
    \/ MainJs /\ UNCHANGED notConfig
    \/ DeployerRunJs /\ UNCHANGED notConfig
    \/ ProgramMain /\ UNCHANGED notConfig
    \/ RunAsync /\ UNCHANGED notConfig
    \/ StrictValidation /\ UNCHANGED notConfig
    \/ LegacyRun /\ UNCHANGED notConfig

SpecConfig == InitC /\ [][NextC]_vars

\* Tar transfers with concurrent workers.
InitT ==
    /\ ParkedDeploy /\ ParkedDiff /\ ParkedRetry /\ ParkedBatch /\ ParkedPreserve
    /\ ParkedConfig /\ InitTar /\ ParkedInplace /\ ParkedOrder /\ ParkedRelay /\ ParkedTarFiles /\ ParkedSftp /\ ParkedPrompt /\ ParkedBackoff /\ ParkedSession /\ ParkedListeners /\ ParkedCommands /\ ParkedWatch

NextT ==
    \/ StartUploadTar /\ UNCHANGED notTar
    \/ (\E w \in Workers : WorkerPut(w)) /\ UNCHANGED notTar
    \/ (\E w \in Workers : WorkerExtract(w)) /\ UNCHANGED notTar
    \/ StartUploadAsync /\ UNCHANGED notTar
    \/ (\E w \in Workers : ProcessBatchConnect(w)) /\ UNCHANGED notTar
    \/ (\E w \in Workers : ProcessBatchUpload(w)) /\ UNCHANGED notTar
    \/ (\E w \in Workers : ProcessBatchExtract(w)) /\ UNCHANGED notTar
    \/ UploadTarReturns /\ UNCHANGED notTar
    \/ UploadTarThrows /\ UNCHANGED notTar
    \/ ProcessExit /\ UNCHANGED notTar
    \/ UploadAsyncEnds /\ UNCHANGED notTar

SpecTar == InitT /\ [][NextT]_vars

\* In-place runs of the three deployers.
InitI ==
    /\ ParkedDeploy /\ ParkedDiff /\ ParkedRetry /\ ParkedBatch /\ ParkedPreserve
    /\ ParkedConfig /\ ParkedTar /\ InitInplace /\ ParkedOrder /\ ParkedRelay /\ ParkedTarFiles /\ ParkedSftp /\ ParkedPrompt /\ ParkedBackoff /\ ParkedSession /\ ParkedListeners /\ ParkedCommands /\ ParkedWatch

NextI ==
    \/ ValidateJs /\ UNCHANGED notInplace
    \/ ValidateLegacy /\ UNCHANGED notInplace
    \/ ValidateCs /\ UNCHANGED notInplace
    \/ ConnectInplace /\ UNCHANGED notInplace
    \/ PrepareJs /\ UNCHANGED notInplace
    \/ PrepareLegacy /\ UNCHANGED notInplace
    \/ PrepareCs /\ UNCHANGED notInplace
    \/ TransferInplace /\ UNCHANGED notInplace

SpecInplace == InitI /\ [][NextI]_vars

\* The step sequence of a run of either deployer.
InitO ==
    /\ ParkedDeploy /\ ParkedDiff /\ ParkedRetry /\ ParkedBatch /\ ParkedPreserve
    /\ ParkedConfig /\ ParkedTar /\ ParkedInplace /\ InitOrder /\ ParkedRelay /\ ParkedTarFiles /\ ParkedSftp /\ ParkedPrompt /\ ParkedBackoff /\ ParkedSession /\ ParkedListeners /\ ParkedCommands /\ ParkedWatch

NextO ==
    \/ StepPre /\ UNCHANGED notOrder
    \/ StepConnect /\ UNCHANGED notOrder
    \/ StepPrepare /\ UNCHANGED notOrder
    \/ StepDiff /\ UNCHANGED notOrder
    \/ StepTransfer /\ UNCHANGED notOrder
    \/ StepPreserve /\ UNCHANGED notOrder
    \/ StepSwap /\ UNCHANGED notOrder
    \/ StepPrune /\ UNCHANGED notOrder
    \/ StepPost /\ UNCHANGED notOrder

SpecOrder == InitO /\ [][NextO]_vars

\* Relay uploads.
InitY ==
    /\ ParkedDeploy /\ ParkedDiff /\ ParkedRetry /\ ParkedBatch /\ ParkedPreserve
    /\ ParkedConfig /\ ParkedTar /\ ParkedInplace /\ ParkedOrder /\ InitRelay /\ ParkedTarFiles /\ ParkedSftp /\ ParkedPrompt /\ ParkedBackoff /\ ParkedSession /\ ParkedListeners /\ ParkedCommands /\ ParkedWatch

NextY ==
    \/ RelayConnect /\ UNCHANGED notRelay
    \/ RelayUploadBundle /\ UNCHANGED notRelay
    \/ RelayUploadKey /\ UNCHANGED notRelay
    \/ RelayChmod /\ UNCHANGED notRelay
    \/ RelayScp /\ UNCHANGED notRelay
    \/ RelayExtract /\ UNCHANGED notRelay
    \/ RelayFinally /\ UNCHANGED notRelay

SpecRelay == InitY /\ [][NextY]_vars

\* Temporary files of the tar batches.
InitF ==
    /\ ParkedDeploy /\ ParkedDiff /\ ParkedRetry /\ ParkedBatch /\ ParkedPreserve
    /\ ParkedConfig /\ ParkedTar /\ ParkedInplace /\ ParkedOrder /\ ParkedRelay /\ InitTarFiles /\ ParkedSftp /\ ParkedPrompt /\ ParkedBackoff /\ ParkedSession /\ ParkedListeners /\ ParkedCommands /\ ParkedWatch

NextF ==
    \/ BatchStart /\ UNCHANGED notTarFiles
    \/ BatchCompress /\ UNCHANGED notTarFiles
    \/ BatchUpload /\ UNCHANGED notTarFiles
    \/ BatchDelay /\ UNCHANGED notTarFiles
    \/ BatchExtract /\ UNCHANGED notTarFiles

SpecTarFiles == InitF /\ [][NextF]_vars

\* DirectSftp transfers.
InitS ==
    /\ ParkedDeploy /\ ParkedDiff /\ ParkedRetry /\ ParkedBatch /\ ParkedPreserve
    /\ ParkedConfig /\ ParkedTar /\ ParkedInplace /\ ParkedOrder /\ ParkedRelay /\ ParkedTarFiles /\ InitSftp /\ ParkedPrompt /\ ParkedBackoff /\ ParkedSession /\ ParkedListeners /\ ParkedCommands /\ ParkedWatch

NextS ==
    \/ MkdirChunk /\ UNCHANGED notSftp
    \/ PutFile /\ UNCHANGED notSftp
    \/ NothingToPut /\ UNCHANGED notSftp

SpecSftp == InitS /\ [][NextS]_vars

\* Calls of RunCommand with an operator at the prompt.
InitQ ==
    /\ ParkedDeploy /\ ParkedDiff /\ ParkedRetry /\ ParkedBatch /\ ParkedPreserve
    /\ ParkedConfig /\ ParkedTar /\ ParkedInplace /\ ParkedOrder /\ ParkedRelay /\ ParkedTarFiles /\ ParkedSftp /\ InitPrompt /\ ParkedBackoff /\ ParkedSession /\ ParkedListeners /\ ParkedCommands /\ ParkedWatch

NextQ ==
    \/ Execute /\ UNCHANGED notPrompt
    \/ Prompt /\ UNCHANGED notPrompt

SpecPrompt == InitQ /\ [][NextQ]_vars

\* Delays of the retry wrapper.
InitW ==
    /\ ParkedDeploy /\ ParkedDiff /\ ParkedRetry /\ ParkedBatch /\ ParkedPreserve
    /\ ParkedConfig /\ ParkedTar /\ ParkedInplace /\ ParkedOrder /\ ParkedRelay /\ ParkedTarFiles /\ ParkedSftp /\ ParkedPrompt /\ InitBackoff /\ ParkedSession /\ ParkedListeners /\ ParkedCommands /\ ParkedWatch

NextW ==
    \/ CallFn /\ UNCHANGED notBackoff
    \/ WaitDelay /\ UNCHANGED notBackoff

SpecBackoff == InitW /\ [][NextW]_vars

\* Sessions of a run.
InitE ==
    /\ ParkedDeploy /\ ParkedDiff /\ ParkedRetry /\ ParkedBatch /\ ParkedPreserve
    /\ ParkedConfig /\ ParkedTar /\ ParkedInplace /\ ParkedOrder /\ ParkedRelay /\ ParkedTarFiles /\ ParkedSftp /\ ParkedPrompt /\ ParkedBackoff /\ InitSession /\ ParkedListeners /\ ParkedCommands /\ ParkedWatch

NextE ==
    \/ RunConnect /\ UNCHANGED notSession
    \/ RunStep /\ UNCHANGED notSession
    \/ Reconnect /\ UNCHANGED notSession
    \/ EndCalled /\ UNCHANGED notSession
    \/ LateReconnect /\ UNCHANGED notSession
    \/ EndSettled /\ UNCHANGED notSession

SpecSession == InitE /\ [][NextE]_vars

\* Listeners of the robust client.
InitL ==
    /\ ParkedDeploy /\ ParkedDiff /\ ParkedRetry /\ ParkedBatch /\ ParkedPreserve
    /\ ParkedConfig /\ ParkedTar /\ ParkedInplace /\ ParkedOrder /\ ParkedRelay /\ ParkedTarFiles /\ ParkedSftp /\ ParkedPrompt /\ ParkedBackoff /\ ParkedSession /\ InitListeners /\ ParkedCommands /\ ParkedWatch

NextL ==
    \/ On /\ UNCHANGED notListeners
    \/ RemoveListener /\ UNCHANGED notListeners
    \/ ConnectClient /\ UNCHANGED notListeners
    \/ ExecReconnect /\ UNCHANGED notListeners

SpecListeners == InitL /\ [][NextL]_vars

\* Command lists over SSH.
InitK ==
    /\ ParkedDeploy /\ ParkedDiff /\ ParkedRetry /\ ParkedBatch /\ ParkedPreserve
    /\ ParkedConfig /\ ParkedTar /\ ParkedInplace /\ ParkedOrder /\ ParkedRelay /\ ParkedTarFiles /\ ParkedSftp /\ ParkedPrompt /\ ParkedBackoff /\ ParkedSession /\ ParkedListeners /\ InitCommands /\ ParkedWatch

NextK ==
    \/ EnterLoop /\ UNCHANGED notCommands
    \/ ExecStart /\ UNCHANGED notCommands
    \/ ExecSettle /\ UNCHANGED notCommands

SpecCommands == InitK /\ [][NextK]_vars

\* The source watcher.
InitV ==
    /\ ParkedDeploy /\ ParkedDiff /\ ParkedRetry /\ ParkedBatch /\ ParkedPreserve
    /\ ParkedConfig /\ ParkedTar /\ ParkedInplace /\ ParkedOrder /\ ParkedRelay /\ ParkedTarFiles /\ ParkedSftp /\ ParkedPrompt /\ ParkedBackoff /\ ParkedSession /\ ParkedListeners /\ ParkedCommands /\ InitWatch

NextV ==
    \/ FileEvent /\ UNCHANGED notWatch
    \/ TimerFires /\ UNCHANGED notWatch
    \/ RunEnds /\ UNCHANGED notWatch

SpecWatch == InitV /\ [][NextV]_vars

\* The watcher with its scheduling: an armed timer fires and a running
\* plan ends; file events need not come.
SpecWatchLive ==
    /\ InitV /\ [][NextV]_vars
    /\ WF_vars(TimerFires /\ UNCHANGED notWatch)
    /\ WF_vars(RunEnds /\ UNCHANGED notWatch)

(***************************************************************************)
(* Claims about release runs (specification Spec).                         *)
(***************************************************************************)
RunEnded == pc = "idle" /\ runs > 0

\* C1: the step with which a run fails in transfer or preserve ends the run
\* with no ln -sfn issued, with the release that was active when the run
\* started still in place with the files it had, and with remoteDir still
\* resolving to that release.
C1_FailedRunKeepsActive ==
    [][(pc \in {"transfer", "preserve"} /\ pc' = "idle"
          /\ activeAtStart # NoRelease)
       => /\ ~lnIssued'
          /\ Active' = activeAtStart
          /\ releasesRoot'[activeAtStart].files = filesAtStart]_vars

\* C2: after a run that ended in success remoteDir is a symlink to the
\* release directory of that run, and that directory exists.
C2_SuccessLinksNewRelease ==
    (RunEnded /\ result = "success")
    => /\ link.kind = "symlink"
       /\ link.target = targetUploadDir
       /\ targetUploadDir \in ReleaseDirs

\* C3: the pruning step of a run never removes the release directory that
\* run created.
C3_NewReleaseNotPruned ==
    targetUploadDir # NoRelease => targetUploadDir \notin removed

\* C4: between runs, once a run has succeeded, remoteDir is a symlink to a
\* release directory that exists under releasesRoot.
C4_LinkNeverDangling ==
    (pc = "idle" /\ okRuns >= 1)
    => /\ link.kind = "symlink"
       /\ link.target \in ReleaseDirs

\* Timestamp-named directories of a listing.
TimestampDirs(root) ==
    {n \in DOMAIN root : root[n].type = "d" /\ MatchesTimestamp(n)}

\* Number of timestamp-named directories of a listing that sort after n.
NewerThan(root, n) ==
    Cardinality({m \in TimestampDirs(root) : NameLess(n, m)})

\* C5: a pruning step that completes leaves exactly the keepReleases newest
\* timestamp-named directories of the listing plus every other entry, all
\* unchanged; and whatever a pruning step removes (completed or not) is a
\* timestamp-named directory outside the keepReleases newest.
C5_PruneKeepsNewest ==
    /\ pc = "post" =>
          /\ DOMAIN releasesRoot =
                {n \in DOMAIN listed :
                    n \notin TimestampDirs(listed)
                    \/ NewerThan(listed, n) < keepReleases}
          /\ removed = {n \in TimestampDirs(listed) :
                           NewerThan(listed, n) >= keepReleases}
          /\ \A n \in DOMAIN releasesRoot : releasesRoot[n] = listed[n]
    /\ \A n \in removed :
          /\ n \in TimestampDirs(listed)
          /\ NewerThan(listed, n) >= keepReleases

\* A pruning step has completed, has removed a release and has kept
\* exactly keepReleases of them next to the entries that are no releases.
C5_Witness ==
    /\ pc = "post"
    /\ removed # {}
    /\ Cardinality(TimestampDirs(releasesRoot)) = keepReleases
    /\ keepReleases > 1
    /\ DOMAIN OtherEntries \subseteq DOMAIN releasesRoot

(***************************************************************************)
(* Claims about the diff engine (specification SpecDiff).                  *)
(***************************************************************************)
\* C6: when the listing command has run (or the target is absent), the
\* change set holds exactly the local files that have no remote file of the
\* same relative path or whose remote file has another size.
C6_ChangeSetIffAbsentOrDifferent ==
    (dPc = "diffed" /\ (dExit = 0 \/ ~dRemoteExists))
    => SeqToSet(dChangeSet) =
          {f \in DOMAIN dLocal :
              f \notin DOMAIN dRemoteAtDiff \/ dRemoteAtDiff[f] # dLocal[f]}

\* C7: a run that follows a successful run, with the local tree and the
\* target as that run left them, computes an empty change set and transfers
\* no file.
C7_SecondRunTransfersNothing ==
    (dRepeat /\ dExit = 0) => (dChangeSet = <<>> /\ dTransferred = {})

(***************************************************************************)
(* Claims about the retry wrapper (specification SpecRetry).               *)
(***************************************************************************)
\* C8: when an operation run through _exec has failed k times, each time
\* with a transient pattern, and then succeeds, it has been invoked k + 1
\* times, its result is what the wrapper returns, and k reconnects have been
\* made, one after each failure and before the retry that follows it; the
\* wrapper gives up only once the failures have reached the attempt limit.
C8_TransientRetriesThenReturns ==
    /\ (rKind = "_exec" /\ rAllTransient /\ rPc = "returned")
       => /\ rCalls = rFails + 1
          /\ rReconnects = rFails
          /\ rSleeps = rFails
          /\ rValue = rOpResult
          /\ rValue \in OpResults
    /\ (rKind = "_exec" /\ rAllTransient /\ rHasConfig /\ rPc \in {"sleep", "call"})
       => rReconnects = rFails
    /\ rPc = "thrown" => rFails >= rRetries

\* An operation has failed twice with transient errors, two reconnects were
\* made, and the third invocation has returned.
C8_Witness ==
    /\ rKind = "_exec"
    /\ rPc = "returned"
    /\ rAllTransient
    /\ rFails = 2
    /\ rReconnects = 2
    /\ rCalls = 3

\* C9: an operation that fails with an error whose message matches none of
\* the transient patterns is invoked once and the error propagates at once:
\* no delay, no retry.
C9_NonTransientNotRetried ==
    (rFails >= 1 /\ rPc # "idle"
        /\ ~isConnectionError(rLastError) /\ ~IsConnectionLoss(rLastError)
        /\ ~IsAlreadyConnected(rLastError))
    => /\ rPc = "thrown"
       /\ rCalls = 1
       /\ rSleeps = 0
       /\ rError = rLastError

\* C10 as stated: with the default options an operation that fails with a
\* transient error on every invocation has been invoked DEFAULT_RETRIES
\* times when the wrapper throws.
C10_ThrowsAfterMaxAttempts ==
    (rPc = "thrown" /\ rAllTransient /\ rRetries = DEFAULT_RETRIES)
    => rCalls = DEFAULT_RETRIES

\* C10 as amended: the wrapper never invokes the operation more than
\* retries + 1 times, and when it throws the operation has been invoked
\* exactly retries + 1 times, every time in vain, and the error thrown is the
\* one of the last pass.
C10_ThrowsAfterRetriesPlusOne ==
    /\ rCalls <= rRetries + 1
    /\ rPc = "thrown" =>
          /\ rCalls = rRetries + 1
          /\ rFails = rCalls
          /\ rError = rThrown
          /\ rError # NoMessage

\* With the default options an operation has failed with a transient error
\* on every invocation and the wrapper has thrown.
C10_Witness ==
    /\ rPc = "thrown"
    /\ rAllTransient
    /\ rRetries = DEFAULT_RETRIES
    /\ rCalls = DEFAULT_RETRIES + 1
    /\ rSleeps = DEFAULT_RETRIES

(***************************************************************************)
(* Claims about the path of the remote operations (specification Spec).    *)
(***************************************************************************)
\* C11: every remote operation issued in a run (commands, connect, exists,
\* mkdir, rmdir, list, uploadDir) has gone through the retry wrapper.
C11_AllRemoteOpsThroughRetry ==
    \A c \in calls : c.via = "withRetry"

(***************************************************************************)
(* Claims about the batch packers (specification SpecBatch).               *)
(***************************************************************************)
\* Total size of the files of a batch.
RECURSIVE BatchSize(_, _)
BatchSize(files, batch) ==
    IF batch = <<>> THEN 0 ELSE files[Head(batch)] + BatchSize(files, Tail(batch))

\* C12: with a limit above 0 every batch the packer returns has a total
\* size of at most the limit, or is a single file that is larger than the
\* limit by itself.
C12_BatchesWithinLimit ==
    (bPc = "packed" /\ bLimit > 0)
    => \A k \in 1..Len(bBatches) :
          \/ BatchSize(bFiles, bBatches[k]) <= bLimit
          \/ Len(bBatches[k]) = 1 /\ bFiles[bBatches[k][1]] > bLimit

\* The packer has returned a batch of two files that fills the limit, and
\* a batch made of one file larger than the limit.
C12_Witness ==
    /\ bPc = "packed"
    /\ bLimit > 0
    /\ \E k \in 1..Len(bBatches) :
          Len(bBatches[k]) = 2 /\ BatchSize(bFiles, bBatches[k]) = bLimit
    /\ \E k \in 1..Len(bBatches) :
          Len(bBatches[k]) = 1 /\ bFiles[bBatches[k][1]] > bLimit

\* C13: with a batch size of 0 the packer returns exactly one batch, which
\* holds every file of the list.
C13_ZeroLimitOneBatch ==
    (bPc = "packed" /\ bBatchSizeMB = <<0>>)
    => /\ Len(bBatches) = 1
       /\ bBatches[1] = [i \in 1..Len(bFiles) |-> i]

(***************************************************************************)
(* Claims about the preserve step and the remote commands (specification   *)
(* SpecPreserve).                                                          *)
(***************************************************************************)
\* The followed names that an entry of preserveFiles denotes.
ListedNames ==
    {n \in KnownNames : \E i \in 1..Len(pEntries) : NormalizedEntry(pEntries[i]) = n}

\* C14: once the preserve step has run, every listed name that was in the
\* new release directory before the step holds what it held before it.
C14_PreserveNeverOverwrites ==
    pPreserved =>
        \A n \in ListedNames :
            pDstBefore[n] # "none" => pDst[n] = pDstBefore[n]

\* The listed names that are neither in preserveDir nor in the live release.
MissingNames ==
    {n \in ListedNames : n \notin pInPreserveDir /\ n \notin pInActive}

\* The deployer has a source for the name.
SourceAvailable(n) ==
    IF pEngine = "Deploy" THEN ContentIn(SourcePlaceJs, n) # "none"
    ELSE SourceContentCs(n) # "none"

\* C15: a listed name without a source is not copied and its destination
\* stays as it was; the other entries are still handled (a name with a
\* source, no destination and a working cp is copied); and the run goes on
\* to the symlink swap: nothing has failed when the step is over, and a run
\* that has ended has sent the ln command last.
C15_MissingSourceSkipped ==
    pPreserved =>
        /\ \A n \in MissingNames : n \notin pCopied /\ pDst[n] = pDstBefore[n]
        /\ \A n \in ListedNames :
              (SourceAvailable(n) /\ pDstBefore[n] = "none" /\ n \in pCpOk)
              => n \in pCopied
        /\ pPc \in {"link", "done"}
        /\ pPc = "link" => pResult = "none" /\ pFailure = "none"
        /\ pPc = "done" =>
              /\ pCommands # <<>>
              /\ pCommands[Len(pCommands)][1] = Text("ln -sfn \"")

\* A run has succeeded whose first entry had no source and was passed over
\* and whose second entry was copied.
C15_Witness ==
    /\ pPreserved
    /\ pEntries = <<Kv, Db>>
    /\ Kv \in MissingNames
    /\ Db \in pCopied
    /\ pPc = "done"
    /\ pResult = "success"

\* Control characters of the entries explored.
ControlChars == {"\n", "\r", "\t", NulChar}

\* An entry that holds "..", starts with a slash or holds a control
\* character.
IsUnsafeEntry(entry) ==
    \/ Includes(entry, <<".", ".">>)
    \/ entry # <<>> /\ entry[1] = "/"
    \/ \E i \in 1..Len(entry) : entry[i] \in ControlChars

\* C16: in a run whose preserveFiles holds an unsafe entry no command has
\* been sent and nothing on the remote host has been changed, and the run
\* ends with the rejection of the entry.
C16_UnsafeEntryRejectedFirst ==
    (\E i \in 1..Len(pEntries) : IsUnsafeEntry(pEntries[i]))
    => /\ pCommands = <<>>
       /\ ~pRemoteChanged
       /\ pPc = "done" => pFailure = "rejected"

\* What a shell reads between double quotes: a backslash takes the next
\* character with it; a double quote, a dollar sign or a grave accent that
\* no backslash has taken is read as syntax.
RECURSIVE ShellSafe(_)
ShellSafe(chars) ==
    IF chars = <<>> THEN TRUE
    ELSE IF Head(chars) = "\\"
         THEN Len(chars) >= 2 /\ ShellSafe(Tail(Tail(chars)))
         ELSE Head(chars) \notin {"\"", "$", Backtick} /\ ShellSafe(Tail(chars))

\* C17: every value interpolated into a command line sent to the remote
\* shell is safe between double quotes.
C17_InterpolatedValuesEscaped ==
    \A k \in 1..Len(pCommands) :
        \A j \in 1..Len(pCommands[k]) :
            pCommands[k][j].kind = "value" => ShellSafe(pCommands[k][j].chars)

\* ---------------------------------------------------------------------------
\* C18: a profile that lacks a required field (host, remoteDir, localDir, or
\* both key and password) after the defaults are merged is reported as a
\* configuration error before any connection attempt: no connection is
\* attempted, no remote command runs, and a deployment invocation that has
\* ended has reported an error.
\* ---------------------------------------------------------------------------
MissingRequired ==
    \/ ~cConfig["host"]
    \/ ~cConfig["remoteDir"]
    \/ ~cConfig["localDir"]
    \/ (~cConfig["privateKeyPath"] /\ ~cConfig["password"])

C18_MissingFieldNoConnection ==
    MissingRequired =>
        /\ cAttempts = 0
        /\ ~cCommands
        /\ (cPc = "exit" /\ ~cDryRun => cReport # "none")

\* ---------------------------------------------------------------------------
\* C19: when the listing command of the diff engine ends with a non-zero
\* status although the target directory exists, the run fails: the step that
\* follows the listing ends the run as failed.  Only an absent directory is
\* treated as an empty remote set.
\* ---------------------------------------------------------------------------
ListingFailed == dPc = "diffed" /\ dEngine = "NetDeploy" /\ dExit # 0 /\ dRemoteExists

C19_ListingFailureIsFatal == [][ListingFailed => dResult' = "failed"]_vars

\* ---------------------------------------------------------------------------
\* C20: during a tar transfer with concurrency > 1 no session is used by
\* more than one worker: two uses of one session, put or extract, are
\* always by the same worker, under every interleaving of the workers.
\* ---------------------------------------------------------------------------
WorkerUses == {u \in tUses : u.worker \in Workers}

C20_NoSessionSharedByWorkers ==
    tConcurrency > 1 =>
        \A u1 \in WorkerUses, u2 \in WorkerUses :
            u1.session = u2.session => u1.worker = u2.worker

\* ---------------------------------------------------------------------------
\* C21: when a batch fails during a tar transfer, nothing more is done once
\* the failure has reached the deployer: no worker starts, uploads or
\* extracts a batch after that moment, and no operation is issued on the
\* session the deployer has closed.
\* ---------------------------------------------------------------------------
C21_NoStepAfterFailureReported == tLate = {}

\* ---------------------------------------------------------------------------
\* C26: at every moment of a tar transfer the number of batches being
\* processed (compressing, uploading or extracting) is at most
\* min(concurrency, number of batches).
\* ---------------------------------------------------------------------------
Processing == {w \in Workers : tWorkerPc[w] \in {"put", "extract"}}

C26_PoolSizeBounded == Cardinality(Processing) <= Min(tConcurrency, tBatchCount)

C26_Witness ==
    /\ tConcurrency > 1
    /\ tBatchCount > tConcurrency
    /\ Cardinality(Processing) = tConcurrency

\* ---------------------------------------------------------------------------
\* C27: under every interleaving of the workers each batch is taken off the
\* queue by exactly one worker, never twice and never skipped, and the
\* upload returns successfully only after every batch has been uploaded and
\* extracted.
\* ---------------------------------------------------------------------------
C27_EachBatchOnceAndAllDone ==
    /\ \A b \in 1..MaxBatches : tTaken[b] <= 1
    /\ tPc = "done" =>
          \A b \in 1..tBatchCount :
              tTaken[b] = 1 /\ b \in tUploaded /\ b \in tExtracted

C27_Witness ==
    /\ tEngine = "Deploy"
    /\ tConcurrency > 1
    /\ tBatchCount > tConcurrency
    /\ tPc = "done"
    /\ \E w1 \in Workers, w2 \in Workers, u1 \in tUses, u2 \in tUses :
          w1 # w2 /\ u1.worker = w1 /\ u2.worker = w2

\* ---------------------------------------------------------------------------
\* C28: the batches partition the file list: concatenated in order they are
\* the list itself (every file in exactly one batch, order kept, each
\* batch a contiguous run), and no batch is empty.
\* ---------------------------------------------------------------------------
RECURSIVE Concat(_)
Concat(batches) ==
    IF batches = <<>> THEN <<>> ELSE Head(batches) \o Concat(Tail(batches))

C28_BatchesPartition ==
    bPc = "packed" =>
        /\ Concat(bBatches) = [i \in 1..Len(bFiles) |-> i]
        /\ \A k \in 1..Len(bBatches) : Len(bBatches[k]) > 0

\* ---------------------------------------------------------------------------
\* C23: a deployment whose normalized remoteDir has fewer segments than
\* minRemoteDepth fails validation before any connection is opened: no
\* connection, archive, clean or upload is ever issued for such a path.
\* ---------------------------------------------------------------------------
C23_ShallowPathNeverTouched ==
    Len(remoteSegments(iRemoteDir)) < iMinRemoteDepth =>
        iOps = {}

\* ---------------------------------------------------------------------------
\* C29: when the transfer starts, the preparation has applied exactly one
\* action by priority: an existing remoteDir with archiveExisting is in the
\* archive and a new empty remoteDir is in its place, nothing deleted;
\* otherwise with cleanRemote it was removed and recreated; otherwise it
\* is untouched; a missing remoteDir exists once files are uploaded.
\* ---------------------------------------------------------------------------
C29_PreparationByPriority ==
    /\ iPc = "transfer" =>
          /\ iExisted /\ iArchiveExisting =>
                iArchive = "old" /\ iRemote = "empty"
          /\ iExisted /\ ~iArchiveExisting /\ iCleanRemote =>
                iDeleted /\ iRemote = "empty" /\ iArchive = "none"
          /\ iExisted /\ ~iArchiveExisting /\ ~iCleanRemote =>
                iRemote = "old" /\ ~iDeleted /\ iArchive = "none"
          /\ ~iExisted => ~iDeleted /\ iArchive = "none"
    /\ "upload" \in iOps => iRemote # "missing"
    /\ iArchiveExisting => ~iDeleted

\* ---------------------------------------------------------------------------
\* C30: the upload target of a symlink-strategy run is a release directory
\* that this run created: when the transfer starts it is empty, also when an
\* earlier run started within the same second.
\* ---------------------------------------------------------------------------
C30_TargetIsNewAndEmpty ==
    pc = "transfer" => releasesRoot[targetUploadDir].files = EmptyDir

\* ---------------------------------------------------------------------------
\* C22: the steps of a run occur in the order pre-commands, diff, transfer,
\* preserve, finalize (symlink swap, pruning), post-commands: the transfer
\* starts only when every pre-command has completed, the symlink is swapped
\* only when transfer and preserve have completed, and a post-command runs
\* only when finalize has completed.  A step has completed when it has
\* returned without throwing.
\* ---------------------------------------------------------------------------
Started(step) == \E i \in 1..Len(oLog) : oLog[i].step = step

Completions(step) ==
    Cardinality({i \in 1..Len(oLog) : oLog[i].step = step /\ oLog[i].outcome # "throw"})

Rank(step) ==
    CASE step = "pre" -> 1
      [] step = "diff" -> 2
      [] step = "transfer" -> 3
      [] step = "preserve" -> 4
      [] step = "swap" -> 5
      [] step = "prune" -> 6
      [] step = "post" -> 7
      [] OTHER -> 0

InOrder ==
    \A i \in 1..Len(oLog), j \in 1..Len(oLog) :
        (i < j /\ Rank(oLog[i].step) > 0 /\ Rank(oLog[j].step) > 0)
            => Rank(oLog[i].step) <= Rank(oLog[j].step)

C22_StepsInOrder ==
    /\ InOrder
    /\ Started("transfer") => Completions("pre") = oPreCount
    /\ Started("swap") =>
          /\ Completions("transfer") = 1
          /\ oPreserve => Completions("preserve") = 1
    /\ Started("post") =>
          (oStrategy = "symlink" =>
              /\ Completions("swap") = 1
              /\ oEngine = "Deploy" => Completions("prune") = 1)

C22_Witness ==
    /\ oResult = "success"
    /\ oStrategy = "symlink"
    /\ oPreserve
    /\ oPreCount > 1
    /\ Completions("post") > 1
    /\ Completions("swap") = 1

\* ---------------------------------------------------------------------------
\* C24: when a relay upload has ended, by success or by a failure at any
\* step after the relay connection was opened, neither the archive nor the
\* copy of the target's private key is left on the relay host, and the
\* local temporary archive is gone.
\* ---------------------------------------------------------------------------
C24_RelayLeavesNothingBehind ==
    (yPc = "end" /\ yOpened) => (~yRelayTar /\ ~yRelayKey /\ ~yLocalTar)

\* ---------------------------------------------------------------------------
\* C25: every step of the relay transfer is fatal on error: after a step
\* that failed (archive upload, key upload, chmod of the key, scp, extract)
\* no later step is issued and the upload fails.
\* ---------------------------------------------------------------------------
C25_RelayStepsFatal ==
    /\ \A i \in 1..Len(yLog) : yLog[i].outcome # "ok" => i = Len(yLog)
    /\ (\E i \in 1..Len(yLog) : yLog[i].outcome # "ok") /\ yPc \in {"finally", "end"}
          => yThrown

\* The source the preserve step is to take for a name: preserveDir when it
\* is configured and holds the name, else the live release.
PreferredSource(n) ==
    IF pPreserveDir # <<>> /\ n \in pInPreserveDir THEN "kept"
    ELSE IF n \in pInActive THEN "live" ELSE "none"

\* ---------------------------------------------------------------------------
\* C31: once the preserve step has run, every listed name it copied holds
\* the content of preserveDir when preserveDir is configured and has the
\* name, and of the live release otherwise; and a listed name that has such
\* a source (in particular one that is only in the live release while
\* preserveDir is configured), no destination yet and a working cp has been
\* copied.
\* ---------------------------------------------------------------------------
C31_PreserveSourcePreference ==
    pPreserved =>
        \A n \in ListedNames :
            /\ n \in pCopied => pDst[n] = PreferredSource(n)
            /\ (PreferredSource(n) # "none" /\ pDstBefore[n] = "none" /\ n \in pCpOk)
               => n \in pCopied

\* ---------------------------------------------------------------------------
\* C32: when the processing of a tar batch has ended, by success or by a
\* failure of compress, upload or extract, no local temporary file of that
\* batch (archive, file list) exists; and a batch that ended in success has
\* no archive left in the remote target directory.
\* ---------------------------------------------------------------------------
C32_BatchLeavesNoTemporaryFiles ==
    /\ \A f \in fLocal : f.batch \notin (fSucceeded \cup fFailed)
    /\ \A b \in fSucceeded : b \notin fRemote

\* Directories a mkdir -p command created with status 0.
CreatedOk == UNION { sMkdirs[k].created : k \in {j \in 1..Len(sMkdirs) : sMkdirs[j].status = "ok"} }

\* ---------------------------------------------------------------------------
\* C33: in a DirectSftp transfer every file whose put was issued, and that
\* lies in a sub-directory, has had its parent directory created by a
\* mkdir -p command that succeeded; after a mkdir -p command that failed no
\* put has been issued; and a transfer that ended well has put every file
\* of the change set exactly once.
\* ---------------------------------------------------------------------------
C33_DirectoriesBeforePuts ==
    /\ \A i \in 1..Len(sPuts) : sPuts[i].dir # "" => sPuts[i].dir \in CreatedOk
    /\ (\E k \in 1..Len(sMkdirs) : sMkdirs[k].status # "ok") => sPuts = <<>>
    /\ sPc = "done" => sPuts = sFiles

RECURSIVE CountIn(_, _)
CountIn(seq, x) ==
    IF seq = <<>> THEN 0
    ELSE (IF Head(seq) = x THEN 1 ELSE 0) + CountIn(Tail(seq), x)

FailedExecs == {k \in 1..Len(qExecs) : qExecs[k].status # 0}

\* ---------------------------------------------------------------------------
\* C34: RunCommand has returned only if its last execution ended with
\* status 0 or the operator's last choice, after a failure, was Skip; the
\* command was executed once, plus once per Retry, always the same
\* command; Quit has made the call throw; and every execution with a
\* non-zero status has been followed by an operator choice before anything
\* else happened.
\* ---------------------------------------------------------------------------
C34_InteractiveFailureMode ==
    /\ qPc = "returned" =>
          /\ qExecs # <<>>
          /\ \/ qExecs[Len(qExecs)].status = 0
             \/ qChoices # <<>> /\ qChoices[Len(qChoices)] = "Skip"
    /\ qPc \in {"prompt", "returned"} \/ (qPc = "thrown" /\ ~qLost) =>
          Len(qExecs) = 1 + CountIn(qChoices, "Retry")
    /\ qPc = "execute" \/ qLost => Len(qExecs) = CountIn(qChoices, "Retry")
    /\ \A k \in 1..Len(qExecs) : qExecs[k].command = qCommand
    /\ (qChoices # <<>> /\ qChoices[Len(qChoices)] = "Quit") => qPc = "thrown"
    /\ \A k \in 1..Len(qChoices) - 1 : qChoices[k] = "Retry"
    /\ Len(qChoices) = Cardinality(FailedExecs) - (IF qPc = "prompt" THEN 1 ELSE 0)

\* A call has returned after a failure, a Retry, a second failure and Skip.
C34_Witness ==
    /\ qPc = "returned"
    /\ qChoices = <<"Retry", "Skip">>
    /\ Len(qExecs) = 2
    /\ qExecs[2].status # 0

\* ---------------------------------------------------------------------------
\* C35: the first retry of the wrapper waits exactly baseDelay (2000 ms
\* when options.delay is not given), every later wait is 1.5 times the one
\* before it, so that the n-th wait is baseDelay * 1.5^(n-1); and every
\* call of fn after the first was preceded by one wait.
\* ---------------------------------------------------------------------------
C35_BackoffDelays ==
    /\ Len(wWaits) >= 1 =>
          /\ wWaits[1].num = initialDelayOf(wDelayOpt) * wWaits[1].den
          /\ wDelayOpt = <<>> => wWaits[1].num = 2000 * wWaits[1].den
    /\ \A n \in 2..Len(wWaits) :
          2 * wWaits[n].num * wWaits[n - 1].den = 3 * wWaits[n - 1].num * wWaits[n].den
    /\ \A n \in 1..Len(wWaits) : wWaits[n].den > 0
    /\ Len(wWaits) = (IF wPc = "call" THEN wCalls ELSE wCalls - 1)

\* The wrapper has waited four times with the default delay: 2000, 3000,
\* 4500 and 6750 ms.
C35_Witness ==
    /\ wDelayOpt = <<>>
    /\ Len(wWaits) = 4
    /\ wWaits[4].num = 6750 * wWaits[4].den
    /\ wCalls = 5

C37_ListenersFollowTheClient ==
    \A r \in Registrations : CountIn(lAttached, r) = lLive[r]

\* ---------------------------------------------------------------------------
\* C38: runCommandsOverSSH runs the commands one at a time, in list order;
\* with stopOnError true (the default) the first command that fails for
\* good makes the call throw and no later command is run; with stopOnError
\* false every command is run whatever failed before and the call returns.
\* ---------------------------------------------------------------------------
C38_CommandsInOrder ==
    /\ Cardinality(kRunning) <= 1
    /\ kOrder = [i \in 1..Len(kOrder) |-> i]
    /\ kStopOpt \in {<<>>, <<TRUE>>} =>
          /\ kFailed # {} => (kPc = "thrown" /\ kFailed = {kOrder[Len(kOrder)]}
                              /\ kRunning = {})
          /\ kPc = "thrown" => kFailed # {}
          /\ kPc = "returned" => Len(kOrder) = kCount
    /\ kStopOpt = <<FALSE>> =>
          /\ kPc # "thrown"
          /\ kPc = "returned" => Len(kOrder) = kCount

\* With stopOnError false the first of two commands failed for good, the
\* second was run, and the call returned.
C38_Witness ==
    /\ kStopOpt = <<FALSE>>
    /\ kCount = 2
    /\ 1 \in kFailed
    /\ kOrder = <<1, 2>>
    /\ kPc = "returned"

\* ---------------------------------------------------------------------------
\* C39: in the source watcher task plans never run concurrently: at most
\* one execution of runTasks is in progress, and the running flag is set
\* exactly while one is.
\* ---------------------------------------------------------------------------
C39_OneRunAtATime ==
    /\ Len(vRuns) <= 1
    /\ vRunning = (Len(vRuns) = 1)

\* A second run, started by the callback of the first because the timer
\* fired during the first, is in progress.
C39_Witness ==
    /\ Len(vRuns) = 1
    /\ vRuns[1].phase = "second"
    /\ vRunning

\* ---------------------------------------------------------------------------
\* C40: in the source watcher no change is lost: a classified file event
\* that arrives while a task plan is running is eventually followed by a
\* run that includes its change type, with no further file event needed.
\* ---------------------------------------------------------------------------
C40_NoChangeLost ==
    \A type \in ChangeTypes : (type \in vOwed) ~> (type \notin vOwed)

====
